---- MODULE Spec2Model ----
(***************************************************************************)
(* A model of the jfxr-rs synthesis engine: the Synth driver (src/synth.rs) *)
(* with its nine transformer stages, the signal functions of Sound          *)
(* (src/sound.rs) and the oscillators (src/oscillator.rs).                  *)
(*                                                                         *)
(* Numbers.  An f64 is modelled as a number on a grid of 1/Scale: the       *)
(* integer v stands for v/Scale.  Every arithmetic operation rounds its     *)
(* exact result to the grid (ties to even), as an IEEE operation rounds to  *)
(* the nearest representable value, so a * (b * c) and (a * b) * c may      *)
(* differ in the last place exactly as they do in f64.  Infinities and NaN   *)
(* are three reserved values with the IEEE rules.  usize values are plain   *)
(* integers, with UsizeMax standing for every value too large to index.     *)
(***************************************************************************)
EXTENDS Integers, Sequences, FiniteSets, TLC

\* ---------------------------------------------------------------- bounds
Scale == 16
MaxBlockSize == 3
MaxExtraTicks == 1
MaxDraws == 5
MaxEdits == 2

\* Evaluation.  `CHOOSE out \in {F(v) : v \in {e}} : TRUE` is F(e) with e
\* evaluated once (a LET would evaluate e again at every use of v); the
\* loops below use it so that each iteration is evaluated once.

\* ------------------------------------------------------------- f64 model
Huge == 2^30
PosInf == Huge
NegInf == -Huge
NaN == Huge + 1
UsizeMax == Huge

IsNaN(x) == x = NaN
IsInf(x) == x = PosInf \/ x = NegInf
Finite(x) == x > NegInf /\ x < PosInf

Sign(x) == IF x < 0 THEN -1 ELSE 1
IAbs(x) == IF x < 0 THEN -x ELSE x
IMin(a, b) == IF a < b THEN a ELSE b
IMax(a, b) == IF a > b THEN a ELSE b

\* n / d for d > 0, rounded to the nearest integer, ties to the even one.
RoundDiv(n, d) ==
    LET q == n \div d
        r == n - q * d
    IN  IF 2 * r < d THEN q
        ELSE IF 2 * r > d THEN q + 1
        ELSE IF q % 2 = 0 THEN q ELSE q + 1

\* `i as f64` for an integer i.
FromInt(i) == i * Scale

\* The literal n/d of the source (0.1, 0.5, ...), rounded to the grid.
Lit(n, d) == RoundDiv(n * Scale, d)

FNeg(a) == IF IsNaN(a) THEN NaN ELSE -a

FAbs(a) == IF IsNaN(a) THEN NaN ELSE IAbs(a)

FAdd(a, b) ==
    IF IsNaN(a) \/ IsNaN(b) THEN NaN
    ELSE IF IsInf(a) THEN (IF IsInf(b) /\ a # b THEN NaN ELSE a)
    ELSE IF IsInf(b) THEN b
    ELSE a + b

FSub(a, b) == FAdd(a, FNeg(b))

FMul(a, b) ==
    IF IsNaN(a) \/ IsNaN(b) THEN NaN
    ELSE IF IsInf(a) \/ IsInf(b)
         THEN (IF a = 0 \/ b = 0 THEN NaN
               ELSE IF Sign(a) * Sign(b) > 0 THEN PosInf ELSE NegInf)
    ELSE RoundDiv(a * b, Scale)

FDiv(a, b) ==
    IF IsNaN(a) \/ IsNaN(b) THEN NaN
    ELSE IF IsInf(a)
         THEN (IF IsInf(b) THEN NaN
               ELSE IF Sign(a) * Sign(b) > 0 THEN PosInf ELSE NegInf)
    ELSE IF IsInf(b) THEN 0
    ELSE IF b = 0
         THEN (IF a = 0 THEN NaN ELSE IF a > 0 THEN PosInf ELSE NegInf)
    ELSE RoundDiv(a * Scale * Sign(b), IAbs(b))

\* Comparisons: every comparison with a NaN is false.
FLt(a, b) == ~IsNaN(a) /\ ~IsNaN(b) /\ a < b
FLe(a, b) == ~IsNaN(a) /\ ~IsNaN(b) /\ a <= b
FGt(a, b) == FLt(b, a)
FGe(a, b) == FLe(b, a)
FEq(a, b) == ~IsNaN(a) /\ ~IsNaN(b) /\ a = b

\* f64::max: a NaN operand is ignored.
FMax(a, b) ==
    IF IsNaN(a) THEN b ELSE IF IsNaN(b) THEN a ELSE IMax(a, b)

\* f64::clamp panics unless lo <= hi; otherwise a NaN stays a NaN.
FClampPanics(lo, hi) == ~FLe(lo, hi)
FClamp(x, lo, hi) ==
    IF IsNaN(x) THEN NaN ELSE IF x < lo THEN lo ELSE IF x > hi THEN hi ELSE x

\* f64::fract: x - trunc(x), which keeps the sign of x.
Fract(x) ==
    IF ~Finite(x) THEN NaN
    ELSE IF x >= 0 THEN x % Scale ELSE -((-x) % Scale)

\* f64::ceil.
Ceil(x) ==
    IF ~Finite(x) THEN x ELSE -(((-x) \div Scale) * Scale)

\* f64::round: to the nearest integer, halves away from zero.
Round(x) ==
    IF ~Finite(x) THEN x
    ELSE Sign(x) * ((2 * IAbs(x) + Scale) \div (2 * Scale)) * Scale

\* `x as usize` for an f64: truncates, saturates, NaN becomes 0.
AsUsize(x) ==
    IF IsNaN(x) THEN 0
    ELSE IF x <= 0 THEN 0
    ELSE IF x = PosInf THEN UsizeMax
    ELSE x \div Scale

\* `h as usize` for an i32: a negative value wraps to one near 2^64.
I32AsUsize(h) == IF h < 0 THEN UsizeMax ELSE h

One == FromInt(1)
Half == Lit(1, 2)

\* f64::sqrt, rounded to the grid; NaN for a negative argument.
RECURSIVE ISqrt(_, _)
ISqrt(n, r) == IF (r + 1) * (r + 1) <= n THEN ISqrt(n, r + 1) ELSE r
Sqrt(x) ==
    IF IsNaN(x) \/ x < 0 THEN NaN
    ELSE IF x = PosInf THEN PosInf
    ELSE LET n == x * Scale
             r == ISqrt(n, 0)
         IN  IF n - r * r > r THEN r + 1 ELSE r

\* The constant std::f64::consts::PI on the grid.
PI == Lit(355, 113)

\* f64::sin and f64::cos: range reduction to [0, 2 pi) and Bhaskara's
\* rational approximation 16 y / (5 pi^2 - 4 y), y = r (pi - r), rounded to
\* the grid.  SinGrid takes its argument in half units, so that the quarter
\* turn PI / 2 of cos is exact.
SinHalfTurn(r) ==
    LET y == r * (2 * PI - r)
    IN  RoundDiv(16 * y * Scale, 20 * PI * PI - 4 * y)
SinGrid(x2) ==
    LET r == x2 % (4 * PI)
    IN  IF r <= 2 * PI THEN SinHalfTurn(r) ELSE -SinHalfTurn(r - 2 * PI)
Sin(x) == IF ~Finite(x) THEN NaN ELSE SinGrid(2 * x)
Cos(x) == IF ~Finite(x) THEN NaN ELSE SinGrid(2 * IAbs(x) + PI)

\* f64::tan.
Tan(x) == FDiv(Sin(x), Cos(x))

\* f64::powf(x, c) for x >= 0 and an exponent c that is a multiple of 1/2
\* (the exponents the model's inputs use): sqrt(x^k) for c = k/2, rounded
\* once.  pow(x, 0) is 1 for every x, NaN included.
RECURSIVE IPow(_, _)
RECURSIVE Powf(_, _)
IPow(b, k) == IF k = 0 THEN 1 ELSE b * IPow(b, k - 1)
Powf(x, c) ==
    IF c = 0 THEN One
    ELSE IF IsNaN(x) \/ IsNaN(c) THEN NaN
    ELSE IF c < 0 THEN FDiv(One, Powf(x, -c))
    ELSE IF x = PosInf THEN (IF c > 0 THEN PosInf ELSE 0)
    ELSE LET k == RoundDiv(2 * c, Scale)
             \* (x/Scale)^(k/2) * Scale = sqrt(x^k * Scale^2 / Scale^k)
             n == IF k >= 2 THEN RoundDiv(IPow(x, k), IPow(Scale, k - 2))
                  ELSE x * Scale
             r == ISqrt(n, 0)
         IN  IF n - r * r > r THEN r + 1 ELSE r

\* ------------------------------------------------- Sound (src/sound.rs)
Hundred == FromInt(100)

duration(s) == FAdd(FAdd(s.attack, s.sustain), s.decay)

effective_repeat_frequency(s) ==
    FMax(s.repeat_frequency, FDiv(One, duration(s)))

\* fract(time * effective_repeat_frequency), the position in the repetition.
fraction_in_repetition(s, time) ==
    Fract(FMul(time, effective_repeat_frequency(s)))

\* `if fraction > onset / 100.0 { freq *= 1.0 + amount / 100.0 }`
FrequencyJump(freq, fraction, onset, amount) ==
    IF FGt(fraction, FDiv(onset, Hundred))
    THEN FMul(freq, FAdd(One, FDiv(amount, Hundred)))
    ELSE freq

\* `if vibrato_depth != 0.0 { freq += 1.0 - depth * (0.5 - 0.5 * sin(..)) }`
Vibrato(s, time, freq) ==
    IF s.vibrato_depth # 0
    THEN FAdd(freq,
           FSub(One,
             FMul(s.vibrato_depth,
               FSub(Half,
                 FMul(Half,
                   Sin(FMul(FMul(2 * PI, time), s.vibrato_frequency)))))))
    ELSE freq

FrequencySwept(s, fraction) ==
    FAdd(FAdd(s.frequency, FMul(fraction, s.frequency_sweep)),
         FMul(FMul(fraction, fraction), s.frequency_delta_sweep))

FrequencyAtFraction(s, time, fraction) ==
    FMax(Vibrato(s, time,
           FrequencyJump(
             FrequencyJump(FrequencySwept(s, fraction), fraction,
                           s.frequency_jump1_onset, s.frequency_jump1_amount),
             fraction, s.frequency_jump2_onset, s.frequency_jump2_amount)),
         0)

frequency_at(s, time) ==
    FrequencyAtFraction(s, time, fraction_in_repetition(s, time))

square_duty_at(s, time) ==
    FDiv(FAdd(s.square_duty,
              FMul(fraction_in_repetition(s, time), s.square_duty_sweep)),
         Hundred)

\* The piecewise envelope of amplitude_at, before the tremolo.
\* amplitude_at whose sustain branch lacks the `1.0 +`.
EnvelopeAtPunchOnly(s, time) ==
    IF FLt(time, s.attack) THEN FDiv(time, s.attack)
    ELSE IF FLt(time, FAdd(s.attack, s.sustain))
         THEN FMul(FDiv(s.sustain_punch, Hundred),
                   FSub(One, FDiv(FSub(time, s.attack), s.sustain)))
    ELSE IF FLt(time, FAdd(FAdd(s.attack, s.sustain), s.decay))
         THEN FSub(One,
                FDiv(FSub(FSub(time, s.attack), s.sustain), s.decay))
    ELSE 0

EnvelopeAt(s, time) ==
    IF FLt(time, s.attack) THEN FDiv(time, s.attack)
    ELSE IF FLt(time, FAdd(s.attack, s.sustain))
         THEN FAdd(One,
                FMul(FDiv(s.sustain_punch, Hundred),
                     FSub(One, FDiv(FSub(time, s.attack), s.sustain))))
    ELSE IF FLt(time, FAdd(FAdd(s.attack, s.sustain), s.decay))
         THEN FSub(One,
                FDiv(FSub(FSub(time, s.attack), s.sustain), s.decay))
    ELSE 0

\* `if tremolo_depth != 0.0 { amp *= 1.0 - (depth / 100.0) * (0.5 + 0.5 * cos(..)) }`
Tremolo(s, time, amp) ==
    IF s.tremolo_depth # 0
    THEN FMul(amp,
           FSub(One,
             FMul(FDiv(s.tremolo_depth, Hundred),
               FAdd(Half,
                 FMul(Half,
                   Cos(FMul(FMul(2 * PI, time), s.tremolo_frequency)))))))
    ELSE amp

amplitude_at(s, time) == Tremolo(s, time, EnvelopeAt(s, time))

\* -------------------------------------- Random (src/oscillator.rs 7-40)
\* A u32 is the pair <<hi, lo>> of its 16-bit halves.
W16 == 2^16

\* Bit i of a ^ b, in place.
XorBit(a, b, i) == (((a \div 2^i) + (b \div 2^i)) % 2) * 2^i
\* a ^ b for 16-bit a and b.
Xor16(a, b) ==
    XorBit(a, b, 0) + XorBit(a, b, 1) + XorBit(a, b, 2) + XorBit(a, b, 3)
    + XorBit(a, b, 4) + XorBit(a, b, 5) + XorBit(a, b, 6) + XorBit(a, b, 7)
    + XorBit(a, b, 8) + XorBit(a, b, 9) + XorBit(a, b, 10) + XorBit(a, b, 11)
    + XorBit(a, b, 12) + XorBit(a, b, 13) + XorBit(a, b, 14) + XorBit(a, b, 15)

\* a ^ b
Xor32(a, b) == <<Xor16(a[1], b[1]), Xor16(a[2], b[2])>>
\* a << 11 (the bits shifted out are dropped)
Shl11(a) == <<((a[1] * 2^11) + (a[2] \div 2^5)) % W16, (a[2] * 2^11) % W16>>
\* a >> 19
Shr19(a) == <<0, a[1] \div 2^3>>
\* a >> 8
Shr8(a) == <<a[1] \div 2^8, ((a[1] % 2^8) * 2^8) + (a[2] \div 2^8)>>
\* a.wrapping_add(0x80000000)
WrappingAddTopBit(a) == <<(a[1] + 2^15) % W16, a[2]>>

\* Random::uint32: the new generator state and the value drawn.
Uint32T(r) == Xor32(r.x, Shl11(r.x))
Uint32W(r, t) == Xor32(Xor32(r.w, Shr19(r.w)), Xor32(t, Shr8(t)))
Uint32Result(r, w) ==
    [rnd |-> [x |-> r.y, y |-> r.z, z |-> r.w, w |-> w],
     out |-> WrappingAddTopBit(w)]
uint32(r) == Uint32Result(r, Uint32W(r, Uint32T(r)))

RECURSIVE Discard(_, _)
Discard(r, n) ==
    IF n = 0 THEN r
    ELSE CHOOSE out \in {Discard(next, n - 1) : next \in {uint32(r).rnd}} : TRUE

\* Random::new with x set to a constant, not the seed.
RandomNewUnseeded(seed) ==
    Discard([x |-> <<0, 0>>,
             y |-> <<362436069 \div W16, 362436069 % W16>>,
             z |-> <<521288629 \div W16, 521288629 % W16>>,
             w |-> <<88675123 \div W16, 88675123 % W16>>], 32)

\* Random::new with the loop `for _ in 0..31`.
RandomNewShortWarmUp(seed) ==
    Discard([x |-> seed,
             y |-> <<362436069 \div W16, 362436069 % W16>>,
             z |-> <<521288629 \div W16, 521288629 % W16>>,
             w |-> <<88675123 \div W16, 88675123 % W16>>], 31)

\* Random::new(seed): seed is a u32 pair; 32 draws are discarded.
RandomNew(seed) ==
    Discard([x |-> seed,
             y |-> <<362436069 \div W16, 362436069 % W16>>,
             z |-> <<521288629 \div W16, 521288629 % W16>>,
             w |-> <<88675123 \div W16, 88675123 % W16>>], 32)

\* span * u / 0xffffffff for a u32 u and a span on the grid, rounded to the
\* grid: with span * u = A * 2^32 + B the quotient is A + (A + B) / (2^32 - 1).
ScaleDraw(span, u) ==
    LET P == span * u[1]
        Q == span * u[2]
        R == (P % W16) + (Q \div W16)
        A == (P \div W16) + (R \div W16)
        Bh == R % W16
        Bl == Q % W16
    IN  IF Bh >= 2^15 \/ (Bh = 2^15 - 1 /\ Bl + A >= W16) THEN A + 1 ELSE A

\* Random::uniform(min, max): the new generator state and the value.
UniformResult(d, min, span) ==
    [rnd |-> d.rnd,
     out |-> FAdd(min, IF span >= 0 THEN ScaleDraw(span, d.out)
                       ELSE -ScaleDraw(-span, d.out))]
uniform(r, min, max) == UniformResult(uint32(r), min, FSub(max, min))

\* ------------------------------------- oscillators (src/oscillator.rs)
lerp(a, b, f) == FAdd(FMul(FSub(One, f), a), FMul(f, b))

NoiseWaveforms == {"Whitenoise", "Pinknoise", "Brownnoise"}
Waveforms ==
    {"Sine", "Triangle", "Sawtooth", "Square", "Tangent", "Whistle", "Breaker"}
        \cup NoiseWaveforms

\* The seed 0x3cf78ba3 every noise oscillator passes to Random::new.
NoiseSeed == <<15607, 35747>>
\* Random::new(0), the seed a default would give.
SeededRandomZero == RandomNew(<<0, 0>>)

SeededRandom == RandomNew(NoiseSeed)

\* XxxOscillator::new(sound): the periodic oscillators are unit structs; the
\* noise oscillators own a generator, the previous doubled phase, the two
\* draws and (pink noise) the filter bank b.
OscillatorNew(s) ==
    IF s.waveform \in NoiseWaveforms
    THEN [interpolate_noise |-> s.interpolate_noise,
          random |-> SeededRandom,
          prev_phase |-> 0,
          b |-> IF s.waveform = "Pinknoise" THEN [k \in 1..7 |-> 0] ELSE <<>>,
          prev_random |-> 0,
          curr_random |-> 0]
    ELSE [interpolate_noise |-> FALSE, random |-> <<>>, prev_phase |-> 0,
          b |-> <<>>, prev_random |-> 0, curr_random |-> 0]

SineSample(phase) == Sin(FMul(2 * PI, phase))

TriangleSample(phase) ==
    IF FLt(phase, Lit(1, 4)) THEN FMul(FromInt(4), phase)
    ELSE IF FLt(phase, Lit(3, 4)) THEN FSub(FromInt(2), FMul(FromInt(4), phase))
    ELSE FAdd(FromInt(-4), FMul(FromInt(4), phase))

SawtoothSample(phase) ==
    IF FLt(phase, Half) THEN FMul(FromInt(2), phase)
    ELSE FAdd(FromInt(-2), FMul(FromInt(2), phase))

SquareSample(s, phase, time) ==
    IF FLt(phase, square_duty_at(s, time)) THEN One ELSE -One

TangentSample(phase) ==
    FClamp(FMul(Lit(3, 10), Tan(FMul(PI, phase))), FromInt(-2), FromInt(2))

WhistleSample(phase) ==
    FAdd(FMul(Lit(3, 4), Sin(FMul(2 * PI, phase))),
         FMul(Lit(1, 4), Sin(FMul(40 * PI, phase))))

BreakerSample(phase) ==
    LET p == Fract(FAdd(phase, Sqrt(Lit(3, 4))))
    IN  FAdd(-One,
             FMul(FromInt(2), FAbs(FSub(One, FMul(FMul(p, p), FromInt(2))))))

\* The step a noise oscillator takes on a wrap of the doubled phase; d is
\* the result of random.uniform(-1.0, 1.0).
WhiteAdvance(o, d) ==
    [o EXCEPT !.prev_random = o.curr_random,
              !.curr_random = d.out,
              !.random = d.rnd]

PinkBank(b, white) ==
    <<FAdd(FMul(Lit(99886, 100000), b[1]), FMul(white, Lit(555179, 10000000))),
      FAdd(FMul(Lit(99332, 100000), b[2]), FMul(white, Lit(750759, 10000000))),
      FAdd(FMul(Lit(96900, 100000), b[3]), FMul(white, Lit(1538520, 10000000))),
      FAdd(FMul(Lit(86650, 100000), b[4]), FMul(white, Lit(3104856, 10000000))),
      FAdd(FMul(Lit(55000, 100000), b[5]), FMul(white, Lit(5329522, 10000000))),
      FAdd(FMul(Lit(-7616, 10000), b[6]), FMul(white, Lit(168980, 10000000))),
      b[7]>>

PinkSum(b, white) ==
    FDiv(FAdd(FAdd(FAdd(FAdd(FAdd(FAdd(FAdd(b[1], b[2]), b[3]), b[4]), b[5]),
                        b[6]), b[7]),
              FMul(white, Lit(5362, 10000))),
         FromInt(7))

PinkAdvanceWith(o, d, b) ==
    [o EXCEPT !.prev_random = o.curr_random,
              !.curr_random = PinkSum(b, d.out),
              !.b = [b EXCEPT ![7] = FMul(d.out, Lit(115926, 1000000))],
              !.random = d.rnd]

PinkAdvance(o, d) == PinkAdvanceWith(o, d, PinkBank(o.b, d.out))

BrownAdvance(o, d) ==
    [o EXCEPT !.prev_random = o.curr_random,
              !.curr_random =
                  FClamp(FAdd(o.curr_random, FMul(Lit(1, 10), d.out)), -One, One),
              !.random = d.rnd]

NoiseAdvance(o, waveform, d) ==
    CASE waveform = "Whitenoise" -> WhiteAdvance(o, d)
      [] waveform = "Pinknoise" -> PinkAdvance(o, d)
      [] OTHER -> BrownAdvance(o, d)

\* {White,Pink,Brown}NoiseOscillator::get_sample with the doubled phase:
\* the oscillator after the call and the sample.
NoiseResult(o, phase) ==
    [osc |-> [o EXCEPT !.prev_phase = phase],
     out |-> IF o.interpolate_noise
             THEN lerp(o.prev_random, o.curr_random, phase)
             ELSE o.curr_random]

\* get_sample drawing also when the doubled phase has not moved.
NoiseSampleAtOnEqual(o, waveform, phase) ==
    IF FLe(phase, o.prev_phase)
    THEN NoiseResult(NoiseAdvance(o, waveform, uniform(o.random, -One, One)),
                     phase)
    ELSE NoiseResult(o, phase)

NoiseSampleAt(o, waveform, phase) ==
    IF FLt(phase, o.prev_phase)
    THEN NoiseResult(NoiseAdvance(o, waveform, uniform(o.random, -One, One)),
                     phase)
    ELSE NoiseResult(o, phase)

NoiseSample(o, waveform, phase) ==
    NoiseSampleAt(o, waveform, Fract(FMul(phase, FromInt(2))))

\* Oscillator::get_sample, dispatched on the waveform the oscillator was
\* built for.
get_sample(o, s, phase, time) ==
    CASE s.waveform = "Sine" -> [osc |-> o, out |-> SineSample(phase)]
      [] s.waveform = "Triangle" -> [osc |-> o, out |-> TriangleSample(phase)]
      [] s.waveform = "Sawtooth" -> [osc |-> o, out |-> SawtoothSample(phase)]
      [] s.waveform = "Square" -> [osc |-> o, out |-> SquareSample(s, phase, time)]
      [] s.waveform = "Tangent" -> [osc |-> o, out |-> TangentSample(phase)]
      [] s.waveform = "Whistle" -> [osc |-> o, out |-> WhistleSample(phase)]
      [] s.waveform = "Breaker" -> [osc |-> o, out |-> BreakerSample(phase)]
      [] OTHER -> NoiseSample(o, s.waveform, phase)

\* --------------------------------------- transformers (src/synth.rs)
\* The mutable state of a Synth is handled as one record st: the output
\* buffer `array`, the state each transformer carries, and `panicked`, set
\* when the step being taken panics (the run ends there).
\*   array[i] of the source is st.array[i + 1]; likewise for the Vecs
\*   oscillators and buffer.
Panic(st) == [st EXCEPT !.panicked = TRUE]

\* Generator::new: one oscillator per harmonic index in 0..=harmonics (none
\* when harmonics is negative) and 1 / (1 + falloff + falloff^2 + ...).
RECURSIVE TotalAmp(_, _, _, _)
TotalAmp(s, k, amp, total_amp) ==
    IF k > s.harmonics THEN total_amp
    ELSE TotalAmp(s, k + 1, FMul(amp, s.harmonics_falloff), FAdd(total_amp, amp))

\* Generator::new with `amp *= falloff` before `total_amp += amp`.
GeneratorNewFalloffFirst(s) ==
    [oscillators |-> [k \in 1..IMax(0, s.harmonics + 1) |-> OscillatorNew(s)],
     first_harmonic_amp |->
         FDiv(One, TotalAmp(s, 0, FMul(One, s.harmonics_falloff), 0)),
     phase |-> 0]

GeneratorNew(s) ==
    [oscillators |-> [k \in 1..IMax(0, s.harmonics + 1) |-> OscillatorNew(s)],
     first_harmonic_amp |-> FDiv(One, TotalAmp(s, 0, One, 0)),
     phase |-> 0]

\* The loop over harmonic_index in 0..=(harmonics as usize) of Generator::run
\* for one sample: the oscillators after their calls, the sum, and whether
\* oscillators[harmonic_index] was out of bounds.
RECURSIVE HarmonicLoop(_, _, _, _, _, _, _, _)
HarmonicLoop(s, oscs, phase, time, harmonic_index, last, amp, sample) ==
    IF harmonic_index > last
    THEN [oscillators |-> oscs, sample |-> sample, panicked |-> FALSE]
    ELSE IF harmonic_index >= Len(oscs)
    THEN [oscillators |-> oscs, sample |-> sample, panicked |-> TRUE]
    ELSE LET harmonic_phase == Fract(FMul(phase, FromInt(harmonic_index + 1)))
         IN  CHOOSE out \in
               {HarmonicLoop(s, [oscs EXCEPT ![harmonic_index + 1] = g.osc],
                             phase, time, harmonic_index + 1, last,
                             FMul(amp, s.harmonics_falloff),
                             FAdd(sample, FMul(amp, g.out))) :
                  g \in {get_sample(oscs[harmonic_index + 1], s,
                                    harmonic_phase, time)}} : TRUE

GeneratorSample(s, st, i, phase, h) ==
    IF h.panicked
    THEN Panic([st EXCEPT !.oscillators = h.oscillators])
    ELSE [st EXCEPT !.phase = phase,
                    !.oscillators = h.oscillators,
                    !.array[i + 1] = h.sample]

\* Generator::run without `.fract()` on the phase.
GeneratorStepNoFract(s, st, i) ==
    LET time == FDiv(FromInt(i), s.sample_rate)
        current_frequency == frequency_at(s, time)
    IN  CHOOSE out \in
          {GeneratorSample(s, st, i, phase,
               HarmonicLoop(s, st.oscillators, phase, time, 0,
                            I32AsUsize(s.harmonics), st.first_harmonic_amp, 0)) :
             phase \in {FAdd(st.phase,
                             FDiv(current_frequency, s.sample_rate))}} : TRUE

GeneratorStep(s, st, i) ==
    LET time == FDiv(FromInt(i), s.sample_rate)
        current_frequency == frequency_at(s, time)
    IN  CHOOSE out \in
          {GeneratorSample(s, st, i, phase,
               HarmonicLoop(s, st.oscillators, phase, time, 0,
                            I32AsUsize(s.harmonics), st.first_harmonic_amp, 0)) :
             phase \in {Fract(FAdd(st.phase,
                                   FDiv(current_frequency, s.sample_rate)))}} : TRUE

\* Envelope::run.
EnvelopeSkips(s) ==
    s.attack = 0 /\ s.sustain_punch = 0 /\ s.decay = 0 /\ s.tremolo_depth = 0

\* Envelope::run with the time of the sample after i.
EnvelopeStepNextTime(s, st, i) ==
    LET time == FDiv(FromInt(i + 1), s.sample_rate)
    IN  [st EXCEPT !.array[i + 1] = FMul(st.array[i + 1], amplitude_at(s, time))]

EnvelopeStep(s, st, i) ==
    LET time == FDiv(FromInt(i), s.sample_rate)
    IN  [st EXCEPT !.array[i + 1] = FMul(st.array[i + 1], amplitude_at(s, time))]

\* Flanger::new: the delay buffer is None unless the offset or its sweep is
\* non-zero; Some(buffer) holds ceil(sample_rate * 0.1) zeros.
FlangerNew(s) ==
    IF s.flanger_offset # 0 \/ s.flanger_offset_sweep # 0
    THEN [buffer |-> [some |-> TRUE,
                      vec |-> [k \in 1..AsUsize(Ceil(FMul(s.sample_rate, Lit(1, 10))))
                                 |-> 0]],
          buffer_pos |-> 0]
    ELSE [buffer |-> [some |-> FALSE, vec |-> <<>>], buffer_pos |-> 0]

\* The delay in samples before the clamp (synth.rs 171).
FlangerOffsetSamples(s, num_samples, i) ==
    AsUsize(Round(
        FMul(FDiv(FAdd(s.flanger_offset,
                       FMul(FDiv(FromInt(i), FromInt(num_samples)),
                            s.flanger_offset_sweep)),
                  FromInt(1000)),
             s.sample_rate)))

\* One sample of Flanger::run.  checks is the build's overflow-checks
\* setting: with it a usize subtraction below zero panics, without it the
\* subtraction and the addition that follows wrap, which gives the same
\* index as unbounded arithmetic.
\* Flanger::run writing the sample to the delay buffer after the addition.
FlangerStepFeedback(s, checks, st, i) ==
    LET buffer == st.buffer.vec
        buffer_length == Len(buffer)
        buffer_pos == st.buffer_pos
    IN  IF buffer_pos >= buffer_length THEN Panic(st)
        ELSE LET offset_samples ==
                     IMin(IMax(FlangerOffsetSamples(s, Len(st.array), i), 0),
                          buffer_length - 1)
                 read == (buffer_pos - offset_samples + buffer_length) % buffer_length
                 sum == FAdd(st.array[i + 1], buffer[read + 1])
             IN  IF checks /\ buffer_pos < offset_samples
                 THEN Panic(st)
                 ELSE [st EXCEPT
                         !.buffer.vec = [buffer EXCEPT ![buffer_pos + 1] = sum],
                         !.array[i + 1] = sum,
                         !.buffer_pos = (buffer_pos + 1) % buffer_length]

FlangerStep(s, checks, st, i) ==
    LET buffer == st.buffer.vec
        buffer_length == Len(buffer)
        buffer_pos == st.buffer_pos
    IN  IF buffer_pos >= buffer_length THEN Panic(st)
        ELSE LET written == [buffer EXCEPT ![buffer_pos + 1] = st.array[i + 1]]
                 offset_samples ==
                     IMin(IMax(FlangerOffsetSamples(s, Len(st.array), i), 0),
                          buffer_length - 1)
                 read == (buffer_pos - offset_samples + buffer_length) % buffer_length
             IN  IF checks /\ buffer_pos < offset_samples
                 THEN Panic([st EXCEPT !.buffer.vec = written])
                 ELSE [st EXCEPT
                         !.buffer.vec = written,
                         !.array[i + 1] = FAdd(st.array[i + 1], written[read + 1]),
                         !.buffer_pos = (buffer_pos + 1) % buffer_length]

\* BitCrush::run returning early on the depth alone.
BitCrushSkipsOnSweep(s) == s.bit_crush # 0 /\ s.bit_crush_sweep = 0

\* BitCrush::run.
BitCrushSkips(s) == s.bit_crush = 0 /\ s.bit_crush_sweep = 0

\* BitCrush::run with `bits.min(16)` for the clamp.
BitCrushBitsNoFloor(s, num_samples, i) ==
    IMin(AsUsize(Round(
             FAdd(FromInt(s.bit_crush),
                  FMul(FDiv(FromInt(i), FromInt(num_samples)),
                       FromInt(s.bit_crush_sweep))))),
         16)

BitCrushBits(s, num_samples, i) ==
    IMin(IMax(AsUsize(Round(
                  FAdd(FromInt(s.bit_crush),
                       FMul(FDiv(FromInt(i), FromInt(num_samples)),
                            FromInt(s.bit_crush_sweep))))),
              1),
         16)

BitCrushStep(s, st, i) ==
    LET bits == BitCrushBits(s, Len(st.array), i)
        steps == FromInt(2^bits)
        x == st.array[i + 1]
    IN  [st EXCEPT !.array[i + 1] =
            FAdd(-One,
                 FDiv(FMul(FromInt(2),
                           Round(FMul(FAdd(Half, FMul(Half, x)), steps))),
                      steps))]

\* LowPass::run.
Nyquist(s) == FDiv(s.sample_rate, FromInt(2))

LowPassSkips(s) ==
    /\ FGe(s.low_pass_cutoff, Nyquist(s))
    /\ FGe(FAdd(s.low_pass_cutoff, s.low_pass_cutoff_sweep), Nyquist(s))

LowPassAlpha(cos_wc) ==
    IF FLe(cos_wc, 0) THEN One
    ELSE FSub(One,
              FSub(FDiv(One, cos_wc),
                   Sqrt(FSub(FDiv(One, FMul(cos_wc, cos_wc)), One))))

LowPassStep(s, st, i) ==
    LET fraction == FDiv(FromInt(i), FromInt(Len(st.array)))
        cutoff == FClamp(FAdd(s.low_pass_cutoff,
                              FMul(fraction, s.low_pass_cutoff_sweep)),
                         0, Nyquist(s))
        wc == FMul(FDiv(cutoff, s.sample_rate), PI)
        low_pass_alpha == LowPassAlpha(Cos(wc))
        sample == FAdd(FMul(low_pass_alpha, st.array[i + 1]),
                       FMul(FSub(One, low_pass_alpha), st.low_pass_prev))
    IN  IF FClampPanics(0, Nyquist(s)) THEN Panic(st)
        ELSE [st EXCEPT !.low_pass_prev = sample, !.array[i + 1] = sample]

\* HighPass::run.
HighPassSkips(s) ==
    /\ FLe(s.high_pass_cutoff, 0)
    /\ FLe(FAdd(s.high_pass_cutoff, s.high_pass_cutoff_sweep), 0)

HighPassStep(s, st, i) ==
    LET fraction == FDiv(FromInt(i), FromInt(Len(st.array)))
        cutoff == FClamp(FAdd(s.high_pass_cutoff,
                              FMul(fraction, s.high_pass_cutoff_sweep)),
                         0, Nyquist(s))
        wc == FMul(FDiv(cutoff, s.sample_rate), PI)
        high_pass_alpha == FDiv(FSub(One, Sin(wc)), Cos(wc))
        orig_sample == st.array[i + 1]
        sample == FMul(high_pass_alpha,
                       FAdd(FSub(st.high_pass_prev_out, st.high_pass_prev_in),
                            orig_sample))
    IN  IF FClampPanics(0, Nyquist(s)) THEN Panic(st)
        ELSE [st EXCEPT !.high_pass_prev_in = orig_sample,
                        !.high_pass_prev_out = sample,
                        !.array[i + 1] = sample]

\* Compress::run.
CompressSkips(s) == s.compression = One

CompressStep(s, st, i) ==
    LET sample == st.array[i + 1]
    IN  [st EXCEPT !.array[i + 1] =
            IF FGe(sample, 0) THEN Powf(sample, s.compression)
            ELSE FNeg(Powf(FNeg(sample), s.compression))]

\* Normalize::run, first loop: the running maximum.
NormalizeStep(s, st, i) ==
    [st EXCEPT !.max_sample = FMax(st.max_sample, FAbs(st.array[i + 1]))]

\* Normalize::run rescaling at the end of every block.
NormalizeRescaleEveryBlock(st, end_sample) ==
    [st EXCEPT !.array =
        [k \in 1..Len(st.array) |->
            IF k <= end_sample
            THEN FMul(st.array[k], FDiv(One, st.max_sample))
            ELSE st.array[k]]]

\* Normalize::run, second part: on the block that ends the buffer every
\* sample of 0..end_sample is multiplied by 1 / max_sample.
NormalizeRescale(st, end_sample) ==
    IF end_sample = Len(st.array)
    THEN LET factor == FDiv(One, st.max_sample)
         IN  [st EXCEPT !.array =
                 [k \in 1..Len(st.array) |->
                     IF k <= end_sample THEN FMul(st.array[k], factor)
                     ELSE st.array[k]]]
    ELSE st

\* Amplify::run.
AmplifyFactor(s) == FDiv(s.amplification, Hundred)

AmplifySkips(s) == AmplifyFactor(s) = One

\* Amplify::run with `+=` for `*=`.
AmplifyStepAdding(s, st, i) ==
    [st EXCEPT !.array[i + 1] = FAdd(st.array[i + 1], AmplifyFactor(s))]

AmplifyStep(s, st, i) ==
    [st EXCEPT !.array[i + 1] = FMul(st.array[i + 1], AmplifyFactor(s))]

\* The body of the loop `for i in start_sample..end_sample` of the named
\* transformer; array[i] panics when i is not an index of the buffer.
SampleStep(name, s, checks, st, i) ==
    IF i >= Len(st.array) THEN Panic(st)
    ELSE CASE name = "Generator" -> GeneratorStep(s, st, i)
           [] name = "Envelope" -> EnvelopeStep(s, st, i)
           [] name = "Flanger" -> FlangerStep(s, checks, st, i)
           [] name = "BitCrush" -> BitCrushStep(s, st, i)
           [] name = "LowPass" -> LowPassStep(s, st, i)
           [] name = "HighPass" -> HighPassStep(s, st, i)
           [] name = "Compress" -> CompressStep(s, st, i)
           [] name = "Normalize" -> NormalizeStep(s, st, i)
           [] OTHER -> AmplifyStep(s, st, i)

RECURSIVE SampleLoop(_, _, _, _, _, _)
SampleLoop(name, s, checks, st, i, end_sample) ==
    IF i >= end_sample \/ st.panicked THEN st
    ELSE CHOOSE out \in
           {SampleLoop(name, s, checks, next, i + 1, end_sample) :
              next \in {SampleStep(name, s, checks, st, i)}} : TRUE

\* The early return of the named transformer's run.
Skips(name, s, st) ==
    CASE name = "Envelope" -> EnvelopeSkips(s)
      [] name = "Flanger" -> ~st.buffer.some
      [] name = "BitCrush" -> BitCrushSkips(s)
      [] name = "LowPass" -> LowPassSkips(s)
      [] name = "HighPass" -> HighPassSkips(s)
      [] name = "Compress" -> CompressSkips(s)
      [] name = "Normalize" -> ~s.normalization
      [] name = "Amplify" -> AmplifySkips(s)
      [] OTHER -> FALSE

\* Transformer::run with the loop `for i in 0..end_sample`.
RunFromZero(name, s, checks, st, start_sample, end_sample) ==
    IF Skips(name, s, st) THEN st
    ELSE CHOOSE out \in
           {IF name = "Normalize" /\ ~looped.panicked
            THEN NormalizeRescale(looped, end_sample)
            ELSE looped :
              looped \in {SampleLoop(name, s, checks, st, 0, end_sample)}} : TRUE

\* Transformer::run with the loop `for i in start_sample..=end_sample`.
RunPastEnd(name, s, checks, st, start_sample, end_sample) ==
    IF Skips(name, s, st) THEN st
    ELSE CHOOSE out \in
           {IF name = "Normalize" /\ ~looped.panicked
            THEN NormalizeRescale(looped, end_sample)
            ELSE looped :
              looped \in {SampleLoop(name, s, checks, st,
                                     start_sample, end_sample + 1)}} : TRUE

\* Transformer::run of the named transformer over start_sample..end_sample.
Run(name, s, checks, st, start_sample, end_sample) ==
    IF Skips(name, s, st) THEN st
    ELSE CHOOSE out \in
           {IF name = "Normalize" /\ ~looped.panicked
            THEN NormalizeRescale(looped, end_sample)
            ELSE looped :
              looped \in {SampleLoop(name, s, checks, st,
                                     start_sample, end_sample)}} : TRUE

\* ------------------------------------------ Synth (src/synth.rs 1-55)
VARIABLES
    sound,              \* the parameter set the Synth borrows
    overflow_checks,    \* the build: are integer overflow checks compiled in
    array,              \* Synth.array
    start_sample,       \* Synth.start_sample, the cursor
    block_size,         \* Synth.block_size
    oscillators,        \* Generator.oscillators
    first_harmonic_amp, \* Generator.first_harmonic_amp
    phase,              \* Generator.phase
    buffer,             \* Flanger.buffer
    buffer_pos,         \* Flanger.buffer_pos
    low_pass_prev,      \* LowPass.low_pass_prev
    high_pass_prev_in,  \* HighPass.high_pass_prev_in
    high_pass_prev_out, \* HighPass.high_pass_prev_out
    max_sample,         \* Normalize.max_sample
    pc,                 \* 0: no tick in progress; k in 1..9: transformers[k]
                        \* runs next; 10: the loop of tick is over
    end_sample,         \* the local end_sample of the tick in progress
    ret,                \* what the last tick returned ("none" before and
                        \* during a call)
    panicked,           \* a panic ended the run
    returned,           \* generate has returned the buffer
    ticks,              \* calls of tick so far
    extra,              \* calls of tick made after one returned true
    log,                \* every call of Transformer::run so far: the
                        \* transformer, its arguments, the tick making the
                        \* call and the buffer as the call found it
    synths,             \* two Synth instances ticked in any interleaving
                        \* (PairSpec); <<>> elsewhere
    generators,         \* two Random instances drawn from in any
                        \* interleaving (RandomSpec); <<>> elsewhere
    jfxr                \* a Sound, the jfxr file written from it and then
                        \* edited, and what read_jfxr returned for the
                        \* file (JfxrSpec); <<>> elsewhere

\* The variables of the single Synth that Spec runs.
synthVars ==
    <<sound, array, start_sample, block_size, oscillators,
      first_harmonic_amp, phase, buffer, buffer_pos, low_pass_prev,
      high_pass_prev_in, high_pass_prev_out, max_sample, pc, end_sample,
      ret, panicked, returned, ticks, extra, log>>

\* The variables of the other specifications.
otherVars == <<synths, generators, jfxr>>

vars == <<overflow_checks, synthVars, otherVars>>

\* The transformers of Synth::new with Amplify put before Normalize.
transformersAmplifyFirst ==
    <<"Generator", "Envelope", "Flanger", "BitCrush", "LowPass", "HighPass",
      "Compress", "Amplify", "Normalize">>

\* The transformers of Synth::new, in the order of the vec.
transformers ==
    <<"Generator", "Envelope", "Flanger", "BitCrush", "LowPass", "HighPass",
      "Compress", "Normalize", "Amplify">>

\* The block size Synth::new sets.
DefaultBlockSize == 10240

\* Synth::new with `1.max(..)` dropped from the buffer length.
NumSamplesUnfloored(s) == AsUsize(Ceil(FMul(s.sample_rate, duration(s))))

\* Synth::new: the buffer length.
NumSamples(s) == IMax(1, AsUsize(Ceil(FMul(s.sample_rate, duration(s)))))

\* Synth::new: the state of a new Synth, as the record the transformers
\* work on.
SynthNew(s) ==
    LET g == GeneratorNew(s)
        f == FlangerNew(s)
    IN  [array |-> [k \in 1..NumSamples(s) |-> 0],
         oscillators |-> g.oscillators,
         first_harmonic_amp |-> g.first_harmonic_amp,
         phase |-> g.phase,
         buffer |-> f.buffer,
         buffer_pos |-> f.buffer_pos,
         low_pass_prev |-> 0,
         high_pass_prev_in |-> 0,
         high_pass_prev_out |-> 0,
         max_sample |-> 0,
         panicked |-> FALSE]

\* Synth::tick, line 42, without `.min(num_samples)`.
EndSampleUnclamped(start, bs, num_samples) == start + bs

\* Synth::tick, line 42: the end of the block that starts at the cursor.
EndSample(start, bs, num_samples) == IMin(start + bs, num_samples)

\* Synth::tick, line 48, with `>` for `>=`.
TickResultStrict(cursor, num_samples) == cursor > num_samples

\* Synth::tick, line 48: the value a call returns after its block.
TickResult(cursor, num_samples) == cursor >= num_samples

\* Synth::tick, lines 43-45, as one step: the transformers from the k-th on
\* run over start_sample..end_sample, up to a panic.
RECURSIVE TransformersLoop(_, _, _, _, _, _)
TransformersLoop(s, checks, st, k, start, end) ==
    IF k > Len(transformers) \/ st.panicked THEN st
    ELSE CHOOSE out \in
           {TransformersLoop(s, checks, next, k + 1, start, end) :
              next \in {Run(transformers[k], s, checks, st, start, end)}} : TRUE

\* Synth::generate with the block size bs: `while !self.tick() {}` from the
\* cursor start on, up to a panic.
RECURSIVE TickLoop(_, _, _, _, _)
TickLoop(s, checks, st, start, bs) ==
    IF start >= Len(st.array) \/ st.panicked THEN st
    ELSE CHOOSE out \in
           {TickLoop(s, checks, next, EndSample(start, bs, Len(st.array)), bs) :
              next \in {TransformersLoop(s, checks, st, 1, start,
                                         EndSample(start, bs, Len(st.array)))}} : TRUE

Generated(s, checks, bs) == TickLoop(s, checks, SynthNew(s), 0, bs)

\* The Synth's state as a record, and the assignment of such a record.
Self ==
    [array |-> array, oscillators |-> oscillators,
     first_harmonic_amp |-> first_harmonic_amp, phase |-> phase,
     buffer |-> buffer, buffer_pos |-> buffer_pos,
     low_pass_prev |-> low_pass_prev, high_pass_prev_in |-> high_pass_prev_in,
     high_pass_prev_out |-> high_pass_prev_out, max_sample |-> max_sample,
     panicked |-> panicked]

Becomes(st) ==
    /\ array' = st.array
    /\ oscillators' = st.oscillators
    /\ first_harmonic_amp' = st.first_harmonic_amp
    /\ phase' = st.phase
    /\ buffer' = st.buffer
    /\ buffer_pos' = st.buffer_pos
    /\ low_pass_prev' = st.low_pass_prev
    /\ high_pass_prev_in' = st.high_pass_prev_in
    /\ high_pass_prev_out' = st.high_pass_prev_out
    /\ max_sample' = st.max_sample
    /\ panicked' = st.panicked

\* ------------------------------------------------------------- inputs
\* The parameter sets the model runs.  Times are fractions of a second at a
\* sample rate of 24, so that a buffer holds up to 9 samples and the
\* flanger's delay line 3.
BaseSound ==
    [sample_rate |-> FromInt(24),
     attack |-> 0, sustain |-> Lit(1, 4), sustain_punch |-> 0, decay |-> 0,
     tremolo_depth |-> 0, tremolo_frequency |-> FromInt(10),
     frequency |-> FromInt(5), frequency_sweep |-> 0,
     frequency_delta_sweep |-> 0, repeat_frequency |-> 0,
     frequency_jump1_onset |-> FromInt(33), frequency_jump1_amount |-> 0,
     frequency_jump2_onset |-> FromInt(66), frequency_jump2_amount |-> 0,
     harmonics |-> 0, harmonics_falloff |-> Half,
     waveform |-> "Sawtooth", interpolate_noise |-> TRUE,
     vibrato_depth |-> 0, vibrato_frequency |-> FromInt(10),
     square_duty |-> FromInt(50), square_duty_sweep |-> 0,
     flanger_offset |-> 0, flanger_offset_sweep |-> 0,
     bit_crush |-> 0, bit_crush_sweep |-> 0,
     low_pass_cutoff |-> FromInt(12), low_pass_cutoff_sweep |-> 0,
     high_pass_cutoff |-> 0, high_pass_cutoff_sweep |-> 0,
     compression |-> One, normalization |-> FALSE,
     amplification |-> Hundred]

With(base, o) == [f \in DOMAIN base |-> IF f \in DOMAIN o THEN o[f] ELSE base[f]]

Envelopes ==
    {[attack |-> 0, sustain |-> Lit(1, 4), decay |-> 0, sustain_punch |-> 0],
     [attack |-> Lit(1, 8), sustain |-> Lit(1, 8), decay |-> Lit(1, 8),
      sustain_punch |-> FromInt(50)],
     [attack |-> 0, sustain |-> 0, decay |-> 0, sustain_punch |-> 0]}

Flangers ==
    {[flanger_offset |-> 0, flanger_offset_sweep |-> 0],
     [flanger_offset |-> FromInt(50), flanger_offset_sweep |-> 0],
     [flanger_offset |-> FromInt(-20), flanger_offset_sweep |-> FromInt(150)]}

BitCrushes ==
    {[bit_crush |-> 0, bit_crush_sweep |-> 0],
     [bit_crush |-> 2, bit_crush_sweep |-> 1],
     [bit_crush |-> 0, bit_crush_sweep |-> 24]}

LowPasses ==
    {[low_pass_cutoff |-> FromInt(12), low_pass_cutoff_sweep |-> 0],
     [low_pass_cutoff |-> FromInt(8), low_pass_cutoff_sweep |-> FromInt(-4)]}

HighPasses ==
    {[high_pass_cutoff |-> 0, high_pass_cutoff_sweep |-> 0],
     [high_pass_cutoff |-> FromInt(2), high_pass_cutoff_sweep |-> FromInt(4)]}

\* Envelope, waveform, normalization and amplification.
LevelSounds ==
    {With(With(BaseSound, e),
          [waveform |-> w, normalization |-> n, amplification |-> FromInt(a)]) :
        e \in Envelopes, w \in {"Sawtooth", "Sine", "Whitenoise"},
        n \in BOOLEAN, a \in {100, 70, 200}}

\* The effect stages.
EffectSounds ==
    {With(With(With(With(With(BaseSound, f), b), l), h),
          [compression |-> c, normalization |-> n, waveform |-> "Triangle"]) :
        f \in Flangers, b \in BitCrushes, l \in LowPasses, h \in HighPasses,
        c \in {One, FromInt(2)}, n \in BOOLEAN}

\* Harmonics, and values outside the documented ranges.
RangeSounds ==
    {With(BaseSound,
          [harmonics |-> h, sample_rate |-> FromInt(r),
           flanger_offset |-> FromInt(f), waveform |-> w, bit_crush |-> b]) :
        h \in {-1, 0, 1}, r \in {0, 24}, f \in {0, 200},
        w \in {"Square", "Brownnoise"}, b \in {0, -3}}

\* An attack ramp under every waveform, with one and two harmonics.
AttackSounds ==
    {With(BaseSound,
          [attack |-> Lit(1, 8), sustain |-> Lit(1, 8), waveform |-> w,
           frequency |-> FromInt(f), harmonics |-> h,
           sample_rate |-> FromInt(r)]) :
        w \in Waveforms, f \in {5, 11}, h \in {0, 1}, r \in {0, 24}}

\* Compression exponents below 1, under every envelope.
CompressSounds ==
    {With(With(BaseSound, e), [compression |-> c, waveform |-> w]) :
        e \in Envelopes, c \in {0, Half}, w \in {"Sawtooth", "Sine"}}

Sounds ==
    LevelSounds \cup EffectSounds \cup RangeSounds \cup AttackSounds
        \cup CompressSounds

\* The block sizes the model runs: the small ones, which cut the buffer into
\* several blocks, and the one Synth::new sets, which covers it whole.
BlockSizes == (1..MaxBlockSize) \cup {DefaultBlockSize}

\* ------------------------------------------------------------ actions
Init ==
    /\ sound \in Sounds
    /\ overflow_checks \in BOOLEAN
    /\ block_size \in BlockSizes
    /\ \E st \in {SynthNew(sound)} :
           /\ array = st.array
           /\ oscillators = st.oscillators
           /\ first_harmonic_amp = st.first_harmonic_amp
           /\ phase = st.phase
           /\ buffer = st.buffer
           /\ buffer_pos = st.buffer_pos
           /\ low_pass_prev = st.low_pass_prev
           /\ high_pass_prev_in = st.high_pass_prev_in
           /\ high_pass_prev_out = st.high_pass_prev_out
           /\ max_sample = st.max_sample
           /\ panicked = st.panicked
    /\ start_sample = 0
    /\ pc = 0
    /\ end_sample = 0
    /\ ret = "none"
    /\ returned = FALSE
    /\ ticks = 0
    /\ extra = 0
    /\ log = <<>>
    /\ synths = <<>>
    /\ generators = <<>>
    /\ jfxr = <<>>

Idle == pc = 0 /\ ~panicked /\ ~returned

\* Synth::tick without the early return of lines 38-40.
TickStartNoEarlyReturn ==
    /\ Idle
    /\ end_sample' = EndSample(start_sample, block_size, Len(array))
    /\ pc' = 1
    /\ ret' = "none"
    /\ ticks' = ticks + 1
    /\ UNCHANGED otherVars
    /\ UNCHANGED <<sound, overflow_checks, array, start_sample, block_size,
                   oscillators, first_harmonic_amp, phase, buffer, buffer_pos,
                   low_pass_prev, high_pass_prev_in, high_pass_prev_out,
                   max_sample, panicked, returned, extra, log>>

\* Synth::tick, lines 36-42: a call with samples left computes end_sample
\* and enters the loop over the transformers.
TickStart ==
    /\ Idle
    /\ start_sample < Len(array)
    /\ end_sample' = EndSample(start_sample, block_size, Len(array))
    /\ pc' = 1
    /\ ret' = "none"
    /\ ticks' = ticks + 1
    /\ UNCHANGED otherVars
    /\ UNCHANGED <<sound, overflow_checks, array, start_sample, block_size,
                   oscillators, first_harmonic_amp, phase, buffer, buffer_pos,
                   low_pass_prev, high_pass_prev_in, high_pass_prev_out,
                   max_sample, panicked, returned, extra, log>>

\* Synth::tick, lines 38-40: a call with no samples left returns true.
TickAgain ==
    /\ Idle
    /\ start_sample >= Len(array)
    /\ extra < MaxExtraTicks
    /\ ret' = "true"
    /\ ticks' = ticks + 1
    /\ extra' = extra + 1
    /\ UNCHANGED otherVars
    /\ UNCHANGED <<sound, overflow_checks, array, start_sample, block_size,
                   oscillators, first_harmonic_amp, phase, buffer, buffer_pos,
                   low_pass_prev, high_pass_prev_in, high_pass_prev_out,
                   max_sample, panicked, returned, pc, end_sample, log>>

\* Synth::tick, lines 43-45: one iteration of the loop, the run of
\* transformers[pc] over start_sample..end_sample.
RunTransformer ==
    /\ pc \in 1..Len(transformers)
    /\ ~panicked
    /\ \E st \in {Run(transformers[pc], sound, overflow_checks, Self,
                       start_sample, end_sample)} : Becomes(st)
    /\ pc' = pc + 1
    /\ log' = Append(log, [stage |-> transformers[pc],
                           start_sample |-> start_sample,
                           end_sample |-> end_sample,
                           tick |-> ticks,
                           input |-> array])
    /\ UNCHANGED otherVars
    /\ UNCHANGED <<sound, overflow_checks, start_sample, block_size,
                   end_sample, ret, returned, ticks, extra>>

\* Synth::tick, lines 46-48: the cursor moves to end_sample and the call
\* returns whether the buffer is complete.
TickReturn ==
    /\ pc = Len(transformers) + 1
    /\ ~panicked
    /\ start_sample' = end_sample
    /\ ret' = IF TickResult(end_sample, Len(array)) THEN "true" ELSE "false"
    /\ pc' = 0
    /\ UNCHANGED otherVars
    /\ UNCHANGED <<sound, overflow_checks, array, block_size, oscillators,
                   first_harmonic_amp, phase, buffer, buffer_pos,
                   low_pass_prev, high_pass_prev_in, high_pass_prev_out,
                   max_sample, end_sample, panicked, returned, ticks, extra,
                   log>>

\* Synth::generate, line 53 (and generate of lib.rs): the loop
\* `while !self.tick() {}` has seen true, and the buffer is returned.
GenerateReturn ==
    /\ Idle
    /\ ret = "true"
    /\ returned' = TRUE
    /\ UNCHANGED otherVars
    /\ UNCHANGED <<sound, overflow_checks, array, start_sample, block_size,
                   oscillators, first_harmonic_amp, phase, buffer, buffer_pos,
                   low_pass_prev, high_pass_prev_in, high_pass_prev_out,
                   max_sample, pc, end_sample, ret, panicked, ticks, extra,
                   log>>

Next ==
    \/ TickStart
    \/ TickAgain
    \/ RunTransformer
    \/ TickReturn
    \/ GenerateReturn

Spec == Init /\ [][Next]_vars

\* ------------------------------------------- two Synths (src/synth.rs)
\* A Synth as a value: the parameter set it borrows, its block size, the
\* state of its buffer and transformers, its cursor, what its last tick
\* returned ("panic": the call panicked) and the calls of tick so far.
SynthOf(s, bs) ==
    [sound |-> s, block_size |-> bs, st |-> SynthNew(s), start_sample |-> 0,
     ret |-> "none", ticks |-> 0]

\* Synth::tick, lines 46-48, given the state the transformers left.
Ticked(inst, end, st) ==
    IF st.panicked
    THEN [inst EXCEPT !.st = st, !.ret = "panic", !.ticks = inst.ticks + 1]
    ELSE [inst EXCEPT !.st = st, !.start_sample = end,
                      !.ret = IF TickResult(end, Len(st.array))
                              THEN "true" ELSE "false",
                      !.ticks = inst.ticks + 1]

\* Synth::tick as one step of a Synth value.
tick(inst, checks) ==
    IF inst.start_sample >= Len(inst.st.array)
    THEN [inst EXCEPT !.ret = "true", !.ticks = inst.ticks + 1]
    ELSE Ticked(inst,
                EndSample(inst.start_sample, inst.block_size,
                          Len(inst.st.array)),
                TransformersLoop(inst.sound, checks, inst.st, 1,
                                 inst.start_sample,
                                 EndSample(inst.start_sample, inst.block_size,
                                           Len(inst.st.array))))

\* A call of tick on instance i with the oscillators' PRNG state held in
\* one place for all instances.
AfterTickSharedRandom(ss, i, checks) ==
    [j \in DOMAIN ss |->
        IF j = i THEN tick(ss[i], checks)
        ELSE [ss[j] EXCEPT !.st.oscillators = tick(ss[i], checks).st.oscillators]]

\* A call of tick on instance i of several: `&mut self` is all it writes.
AfterTick(ss, i, checks) == [ss EXCEPT ![i] = tick(ss[i], checks)]

\* The parameter sets and block sizes of the two instances.
PairSounds ==
    {With(BaseSound, [waveform |-> "Whitenoise", normalization |-> TRUE]),
     With(BaseSound, [waveform |-> "Pinknoise", harmonics |-> 1]),
     With(BaseSound, [waveform |-> "Triangle",
                      flanger_offset |-> FromInt(50)]),
     With(BaseSound, [harmonics |-> -1])}

PairBlockSizes == {MaxBlockSize, DefaultBlockSize}

\* The single Synth of Spec, not constructed.
NoSynth ==
    /\ sound = BaseSound
    /\ array = <<>>
    /\ start_sample = 0
    /\ block_size = DefaultBlockSize
    /\ oscillators = <<>>
    /\ first_harmonic_amp = 0
    /\ phase = 0
    /\ buffer = [some |-> FALSE, vec |-> <<>>]
    /\ buffer_pos = 0
    /\ low_pass_prev = 0
    /\ high_pass_prev_in = 0
    /\ high_pass_prev_out = 0
    /\ max_sample = 0
    /\ pc = 0
    /\ end_sample = 0
    /\ ret = "none"
    /\ panicked = FALSE
    /\ returned = FALSE
    /\ ticks = 0
    /\ extra = 0
    /\ log = <<>>

PairInit ==
    /\ NoSynth
    /\ overflow_checks \in BOOLEAN
    /\ synths \in {<<SynthOf(s1, b1), SynthOf(s2, b2)>> :
                      s1 \in PairSounds, s2 \in PairSounds,
                      b1 \in PairBlockSizes, b2 \in PairBlockSizes}
    /\ generators = <<>>
    /\ jfxr = <<>>

\* A thread calls tick on its instance, until tick returns true or panics.
PairTick(i) ==
    /\ synths[i].ret \notin {"true", "panic"}
    /\ synths' = AfterTick(synths, i, overflow_checks)
    /\ UNCHANGED <<overflow_checks, synthVars, generators, jfxr>>

PairNext == PairTick(1) \/ PairTick(2)

PairSpec == PairInit /\ [][PairNext]_vars

\* --------------------------------- two Randoms (src/oscillator.rs 7-40)
\* The seeds the generators are constructed with.
Seeds == {<<0, 0>>, <<0, 1>>, NoiseSeed, <<2^15, 0>>, <<W16 - 1, W16 - 1>>}

\* A generator after the call of uint32 with result d: its seed, its state
\* and the values it has returned.
Drawing(g, d) ==
    [g EXCEPT !.random = d.rnd, !.draws = Append(g.draws, d.out)]

RandomInit ==
    /\ NoSynth
    /\ overflow_checks = FALSE
    /\ synths = <<>>
    /\ jfxr = <<>>
    /\ generators \in
          {<<[seed |-> s1, random |-> RandomNew(s1), draws |-> <<>>],
             [seed |-> s2, random |-> RandomNew(s2), draws |-> <<>>]>> :
              s1 \in Seeds, s2 \in Seeds}

\* Random::uint32 on generator i.
Draw(i) ==
    /\ Len(generators[i].draws) < MaxDraws
    /\ generators' =
          [generators EXCEPT
              ![i] = Drawing(generators[i], uint32(generators[i].random))]
    /\ UNCHANGED <<overflow_checks, synthVars, synths, jfxr>>

RandomNext == Draw(1) \/ Draw(2)

RandomSpec == RandomInit /\ [][RandomNext]_vars

\* ------------------------------------------ jfxr files (src/jfxr.rs)
VERSION == 1

\* A json::JsonValue: a Number (m times 10^e), a String, a Boolean, Null
\* or an Array; "absent" stands for a key its object does not have.
JsonValue(t, m, e, s, b) == [t |-> t, m |-> m, e |-> e, s |-> s, b |-> b]

\* The fields read_jfxr reads, in the order it reads them: the key, the
\* accessor called on the value, and the field of Sound the value goes to.
Fields ==
    <<[key |-> "_version", get |-> "as_u32", field |-> "_version"],
      [key |-> "_name", get |-> "as_str", field |-> "name"],
      [key |-> "sampleRate", get |-> "as_f64", field |-> "sample_rate"],
      [key |-> "attack", get |-> "as_f64", field |-> "attack"],
      [key |-> "sustain", get |-> "as_f64", field |-> "sustain"],
      [key |-> "sustainPunch", get |-> "as_f64", field |-> "sustain_punch"],
      [key |-> "decay", get |-> "as_f64", field |-> "decay"],
      [key |-> "tremoloDepth", get |-> "as_f64", field |-> "tremolo_depth"],
      [key |-> "tremoloFrequency", get |-> "as_f64", field |-> "tremolo_frequency"],
      [key |-> "frequency", get |-> "as_f64", field |-> "frequency"],
      [key |-> "frequencySweep", get |-> "as_f64", field |-> "frequency_sweep"],
      [key |-> "frequencyDeltaSweep", get |-> "as_f64", field |-> "frequency_delta_sweep"],
      [key |-> "repeatFrequency", get |-> "as_f64", field |-> "repeat_frequency"],
      [key |-> "frequencyJump1Onset", get |-> "as_f64", field |-> "frequency_jump1_onset"],
      [key |-> "frequencyJump1Amount", get |-> "as_f64", field |-> "frequency_jump1_amount"],
      [key |-> "frequencyJump2Onset", get |-> "as_f64", field |-> "frequency_jump2_onset"],
      [key |-> "frequencyJump2Amount", get |-> "as_f64", field |-> "frequency_jump2_amount"],
      [key |-> "harmonics", get |-> "as_i32", field |-> "harmonics"],
      [key |-> "harmonicsFalloff", get |-> "as_f64", field |-> "harmonics_falloff"],
      [key |-> "waveform", get |-> "as_str", field |-> "waveform"],
      [key |-> "interpolateNoise", get |-> "as_bool", field |-> "interpolate_noise"],
      [key |-> "vibratoDepth", get |-> "as_f64", field |-> "vibrato_depth"],
      [key |-> "vibratoFrequency", get |-> "as_f64", field |-> "vibrato_frequency"],
      [key |-> "squareDuty", get |-> "as_f64", field |-> "square_duty"],
      [key |-> "squareDutySweep", get |-> "as_f64", field |-> "square_duty_sweep"],
      [key |-> "flangerOffset", get |-> "as_f64", field |-> "flanger_offset"],
      [key |-> "flangerOffsetSweep", get |-> "as_f64", field |-> "flanger_offset_sweep"],
      [key |-> "bitCrush", get |-> "as_i32", field |-> "bit_crush"],
      [key |-> "bitCrushSweep", get |-> "as_i32", field |-> "bit_crush_sweep"],
      [key |-> "lowPassCutoff", get |-> "as_f64", field |-> "low_pass_cutoff"],
      [key |-> "lowPassCutoffSweep", get |-> "as_f64", field |-> "low_pass_cutoff_sweep"],
      [key |-> "highPassCutoff", get |-> "as_f64", field |-> "high_pass_cutoff"],
      [key |-> "highPassCutoffSweep", get |-> "as_f64", field |-> "high_pass_cutoff_sweep"],
      [key |-> "compression", get |-> "as_f64", field |-> "compression"],
      [key |-> "normalization", get |-> "as_bool", field |-> "normalization"],
      [key |-> "amplification", get |-> "as_f64", field |-> "amplification"]>>

\* The match on the waveform tag in read_jfxr.
Tags ==
    [sine |-> "Sine", triangle |-> "Triangle", sawtooth |-> "Sawtooth",
     square |-> "Square", tangent |-> "Tangent", whistle |-> "Whistle",
     breaker |-> "Breaker", whitenoise |-> "Whitenoise",
     pinknoise |-> "Pinknoise", brownnoise |-> "Brownnoise"]

\* as_i32 that truncates a fractional number.
GetTruncating(get, v) ==
    CASE get = "as_u32" ->
           [some |-> v.t = "number" /\ v.e = 0 /\ v.m >= 0, val |-> v.m]
      [] get = "as_i32" ->
           [some |-> v.t = "number",
            val |-> IF v.e >= 0 THEN v.m * 10^v.e
                    ELSE IF v.m >= 0 THEN v.m \div 10^(0 - v.e)
                    ELSE 0 - ((0 - v.m) \div 10^(0 - v.e))]
      [] get = "as_f64" ->
           [some |-> v.t = "number",
            val |-> IF v.e >= 0 THEN v.m * 10^v.e * Scale
                    ELSE RoundDiv(v.m * Scale, 10^(0 - v.e))]
      [] get = "as_str" -> [some |-> v.t = "string", val |-> v.s]
      [] get = "as_bool" -> [some |-> v.t = "boolean", val |-> v.b]

\* The accessors of json::JsonValue that read_field! calls: Some(value)
\* for a value of the type, None otherwise.  as_u32 and as_i32 take a
\* number without a fraction (and as_u32 one that is not negative).
Get(get, v) ==
    CASE get = "as_u32" ->
           [some |-> v.t = "number" /\ v.e = 0 /\ v.m >= 0, val |-> v.m]
      [] get = "as_i32" ->
           [some |-> v.t = "number" /\ v.e = 0, val |-> v.m]
      [] get = "as_f64" ->
           [some |-> v.t = "number",
            val |-> IF v.e >= 0 THEN v.m * 10^v.e * Scale
                    ELSE RoundDiv(v.m * Scale, 10^(0 - v.e))]
      [] get = "as_str" -> [some |-> v.t = "string", val |-> v.s]
      [] get = "as_bool" -> [some |-> v.t = "boolean", val |-> v.b]

\* The reads of read_jfxr from field i on, each `?` returning the error;
\* out holds the fields read so far.
RECURSIVE ReadFields(_, _, _)
ReadFields(json, i, out) ==
    IF i > Len(Fields) THEN [ok |-> TRUE, sound |-> out, err |-> <<>>]
    ELSE IF json[Fields[i].key].t = "absent"
    THEN [ok |-> FALSE, sound |-> <<>>,
          err |-> <<"MissingField", Fields[i].key>>]
    ELSE CHOOSE r \in
           {IF ~g.some
            THEN [ok |-> FALSE, sound |-> <<>>,
                  err |-> <<"InvalidField", Fields[i].key>>]
            ELSE IF Fields[i].key = "_version"
            THEN IF g.val > VERSION
                 THEN [ok |-> FALSE, sound |-> <<>>,
                       err |-> <<"UnsupportedVersion">>]
                 ELSE ReadFields(json, i + 1, o)
            ELSE IF Fields[i].key = "waveform"
            THEN IF g.val \notin DOMAIN Tags
                 THEN [ok |-> FALSE, sound |-> <<>>,
                       err |-> <<"InvalidField", "waveform">>]
                 ELSE ReadFields(json, i + 1,
                                 [o EXCEPT !["waveform"] = Tags[g.val]])
            ELSE ReadFields(json, i + 1,
                            [o EXCEPT ![Fields[i].field] = g.val]) :
              g \in {Get(Fields[i].get, json[Fields[i].key])},
              o \in {out}} : TRUE

\* read_jfxr on a parsed text: doc.kind is "invalid" for a text that is
\* not JSON, else the kind of the JSON value.
read_jfxr(doc) ==
    IF doc.kind = "invalid"
    THEN [ok |-> FALSE, sound |-> <<>>, err |-> <<"Json">>]
    ELSE IF doc.kind # "object"
    THEN [ok |-> FALSE, sound |-> <<>>, err |-> <<"NotAnObject">>]
    ELSE ReadFields(doc.fields, 1,
                    [f \in {Fields[i].field : i \in 2..Len(Fields)} |-> 0])

\* `.into()` a JsonValue, as the text then holds it: an f64 as a decimal
\* number of four places that reads back as the same f64, and as null when
\* it is infinite or not a number, which JSON cannot write.
IntoJson(from, v) ==
    CASE from = "f64" ->
           IF Finite(v)
           THEN JsonValue("number", RoundDiv(v * 10^4, Scale), -4, "", FALSE)
           ELSE JsonValue("null", 0, 0, "", FALSE)
      [] from \in {"u32", "i32"} -> JsonValue("number", v, 0, "", FALSE)
      [] from = "String" -> JsonValue("string", 0, 0, v, FALSE)
      [] from = "bool" -> JsonValue("boolean", 0, 0, "", v)

\* The fields of Sound write_jfxr inserts: the key, the type of the value
\* and the field.
Inserts ==
    <<[key |-> "_name", from |-> "String", field |-> "name"],
      [key |-> "sampleRate", from |-> "f64", field |-> "sample_rate"],
      [key |-> "attack", from |-> "f64", field |-> "attack"],
      [key |-> "sustain", from |-> "f64", field |-> "sustain"],
      [key |-> "sustainPunch", from |-> "f64", field |-> "sustain_punch"],
      [key |-> "decay", from |-> "f64", field |-> "decay"],
      [key |-> "tremoloDepth", from |-> "f64", field |-> "tremolo_depth"],
      [key |-> "tremoloFrequency", from |-> "f64", field |-> "tremolo_frequency"],
      [key |-> "frequency", from |-> "f64", field |-> "frequency"],
      [key |-> "frequencySweep", from |-> "f64", field |-> "frequency_sweep"],
      [key |-> "frequencyDeltaSweep", from |-> "f64", field |-> "frequency_delta_sweep"],
      [key |-> "repeatFrequency", from |-> "f64", field |-> "repeat_frequency"],
      [key |-> "frequencyJump1Onset", from |-> "f64", field |-> "frequency_jump1_onset"],
      [key |-> "frequencyJump1Amount", from |-> "f64", field |-> "frequency_jump1_amount"],
      [key |-> "frequencyJump2Onset", from |-> "f64", field |-> "frequency_jump2_onset"],
      [key |-> "frequencyJump2Amount", from |-> "f64", field |-> "frequency_jump2_amount"],
      [key |-> "harmonics", from |-> "i32", field |-> "harmonics"],
      [key |-> "harmonicsFalloff", from |-> "f64", field |-> "harmonics_falloff"],
      [key |-> "interpolateNoise", from |-> "bool", field |-> "interpolate_noise"],
      [key |-> "vibratoDepth", from |-> "f64", field |-> "vibrato_depth"],
      [key |-> "vibratoFrequency", from |-> "f64", field |-> "vibrato_frequency"],
      [key |-> "squareDuty", from |-> "f64", field |-> "square_duty"],
      [key |-> "squareDutySweep", from |-> "f64", field |-> "square_duty_sweep"],
      [key |-> "flangerOffset", from |-> "f64", field |-> "flanger_offset"],
      [key |-> "flangerOffsetSweep", from |-> "f64", field |-> "flanger_offset_sweep"],
      [key |-> "bitCrush", from |-> "i32", field |-> "bit_crush"],
      [key |-> "bitCrushSweep", from |-> "i32", field |-> "bit_crush_sweep"],
      [key |-> "lowPassCutoff", from |-> "f64", field |-> "low_pass_cutoff"],
      [key |-> "lowPassCutoffSweep", from |-> "f64", field |-> "low_pass_cutoff_sweep"],
      [key |-> "highPassCutoff", from |-> "f64", field |-> "high_pass_cutoff"],
      [key |-> "highPassCutoffSweep", from |-> "f64", field |-> "high_pass_cutoff_sweep"],
      [key |-> "compression", from |-> "f64", field |-> "compression"],
      [key |-> "normalization", from |-> "bool", field |-> "normalization"],
      [key |-> "amplification", from |-> "f64", field |-> "amplification"]>>

\* The match on sound.waveform in write_jfxr.
TagOf ==
    [Sine |-> "sine", Triangle |-> "triangle", Sawtooth |-> "sawtooth",
     Square |-> "square", Tangent |-> "tangent", Whistle |-> "whistle",
     Breaker |-> "breaker", Whitenoise |-> "whitenoise",
     Pinknoise |-> "pinknoise", Brownnoise |-> "brownnoise"]

\* write_jfxr, as the object its text parses to.
write_jfxr(s) ==
    [kind |-> "object",
     fields |->
        [k \in {"_version", "_locked", "waveform"}
                  \cup {Inserts[i].key : i \in 1..Len(Inserts)} |->
            CASE k = "_version" -> IntoJson("u32", VERSION)
              [] k = "_locked" -> JsonValue("array", 0, 0, "", FALSE)
              [] k = "waveform" -> IntoJson("String", TagOf[s.waveform])
              [] OTHER ->
                   CHOOSE v \in {IntoJson(Inserts[i].from, s[Inserts[i].field]) :
                                    i \in {j \in 1..Len(Inserts) :
                                              Inserts[j].key = k}} : TRUE]]

\* A written file is read; before that it may be edited, or wholly
\* replaced by a text that is not an object.
JfxrInit ==
    /\ NoSynth
    /\ overflow_checks = FALSE
    /\ synths = <<>>
    /\ generators = <<>>
    /\ \E s \in {[name |-> "laser"] @@ BaseSound,
                 [name |-> ""] @@
                    With(BaseSound,
                         [attack |-> Lit(1, 8), harmonics |-> -1,
                          bit_crush |-> -3, waveform |-> "Brownnoise",
                          interpolate_noise |-> FALSE,
                          normalization |-> TRUE,
                          amplification |-> FromInt(-70)]),
                 [name |-> "boom"] @@
                    With(BaseSound, [frequency |-> PosInf])} :
          jfxr = [sound |-> s, doc |-> write_jfxr(s), edits |-> 0,
                  read |-> FALSE,
                  result |-> [ok |-> FALSE, sound |-> <<>>, err |-> <<>>]]

JfxrEdit ==
    /\ ~jfxr.read
    /\ \/ /\ jfxr.doc.kind = "object"
          /\ jfxr.edits < MaxEdits
          /\ \E k \in {"_version", "_name", "sampleRate", "harmonics",
                       "waveform", "interpolateNoise", "bitCrushSweep",
                       "amplification"} :
             \E v \in {JsonValue("absent", 0, 0, "", FALSE),
                       JsonValue("number", 2, 0, "", FALSE),
                       JsonValue("number", -1, 0, "", FALSE),
                       JsonValue("number", 15, -1, "", FALSE),
                       JsonValue("string", 0, 0, "sine", FALSE),
                       JsonValue("string", 0, 0, "noise", FALSE),
                       JsonValue("boolean", 0, 0, "", TRUE),
                       JsonValue("null", 0, 0, "", FALSE)} :
                jfxr' = [jfxr EXCEPT !.doc.fields[k] = v,
                                     !.edits = jfxr.edits + 1]
       \/ /\ jfxr.edits = 0
          /\ \E kind \in {"invalid", "array", "number", "null"} :
                jfxr' = [jfxr EXCEPT !.doc = [kind |-> kind, fields |-> <<>>],
                                     !.edits = MaxEdits]
    /\ UNCHANGED <<overflow_checks, synthVars, synths, generators>>

JfxrRead ==
    /\ ~jfxr.read
    /\ jfxr' = [jfxr EXCEPT !.read = TRUE, !.result = read_jfxr(jfxr.doc)]
    /\ UNCHANGED <<overflow_checks, synthVars, synths, generators>>

JfxrNext == JfxrEdit \/ JfxrRead

JfxrSpec == JfxrInit /\ [][JfxrNext]_vars

\* ------------------------------------------------------------- claims
\* Helpers of the statements below.
CeilDiv(a, b) == (a + b - 1) \div b

\* The largest absolute value of a buffer (NaN counts as largest).
Peak(a) ==
    IF a = <<>> THEN 0
    ELSE CHOOSE m \in {IAbs(a[k]) : k \in 1..Len(a)} :
             \A k \in 1..Len(a) : IAbs(a[k]) <= m

\* C1: block invariance.  The buffer a completed run returns is, sample
\* for sample, the buffer a run of the same parameter set returns with any
\* other block size, one block covering the whole buffer included.
C1_BlockInvariance ==
    returned =>
        \A bs \in BlockSizes :
            \E g \in {Generated(sound, overflow_checks, bs)} :
                ~g.panicked /\ g.array = array

C3_NeverFails == ~panicked

\* C4: a call of tick that finds the cursor below the buffer length
\* processes min(block_size, length - cursor) samples (the nine runs it
\* makes are over the cursor and that many samples), moves the cursor on by
\* that amount, and returns true exactly when the cursor is then the buffer
\* length; a call that finds the cursor at the length returns true.
C4_TickResult ==
    [][/\ (pc = 10 /\ pc' = 0) =>
            /\ start_sample < Len(array)
            /\ start_sample' =
                   start_sample + IMin(block_size, Len(array) - start_sample)
            /\ ret' \in {"true", "false"}
            /\ (ret' = "true") <=> (start_sample' = Len(array'))
            /\ Len(log) >= 9
            /\ \A j \in (Len(log) - 8)..Len(log) :
                   /\ log[j].tick = ticks
                   /\ log[j].start_sample = start_sample
                   /\ log[j].end_sample = start_sample'
       /\ (ticks' # ticks /\ pc' = 0) =>
            /\ start_sample >= Len(array)
            /\ ret' = "true"
            /\ start_sample' = Len(array')]_vars

\* C4, witness: after calls that returned false, a call has returned true
\* after a last block shorter than the block size.
C4_ShortLastBlock ==
    /\ pc = 0 /\ ret = "true" /\ ticks >= 2 /\ extra = 0
    /\ block_size < Len(array) /\ Len(array) % block_size # 0
    /\ start_sample = Len(array)
    /\ log[Len(log)].end_sample - log[Len(log)].start_sample < block_size

\* Every index of the buffer lies in the range of exactly one run of every
\* transformer.
ProcessedOnce ==
    \A k \in 1..9 : \A i \in 0..(Len(array) - 1) :
        Cardinality({j \in 1..Len(log) :
                        /\ log[j].stage = transformers[k]
                        /\ log[j].start_sample <= i
                        /\ i < log[j].end_sample}) = 1

\* C5: generate terminates for every buffer length: a run that has not
\* returned the buffer can take a step (a transformer about to run, or
\* else some step of tick or generate), and at the return tick has been
\* called ceil(length / block_size) times and every index has been
\* processed exactly once by every stage.
C5_GenerateTerminates ==
    /\ returned \/ (pc \in 1..9 /\ ~panicked) \/ ENABLED Next
    /\ returned =>
          /\ ticks - extra = CeilDiv(Len(array), block_size)
          /\ ProcessedOnce

\* C6: the runs of the stages come in rounds of nine, one round per tick:
\* the k-th run of a round is the k-th of Generator, Envelope, Flanger,
\* BitCrush, LowPass, HighPass, Compress, Normalize, Amplify and has the
\* range of the round's first run, so a stage runs for a block only after
\* the stages before it and for the next block only after Amplify; a tick
\* that has returned has made all nine runs.
C6_StageOrder ==
    /\ \A j \in 1..Len(log) :
          /\ log[j].stage =
                 <<"Generator", "Envelope", "Flanger", "BitCrush", "LowPass",
                   "HighPass", "Compress", "Normalize", "Amplify">>[((j - 1) % 9) + 1]
          /\ log[j].tick = ((j - 1) \div 9) + 1
          /\ (j - 1) % 9 # 0 =>
                /\ log[j].start_sample = log[j - 1].start_sample
                /\ log[j].end_sample = log[j - 1].end_sample
    /\ pc = 0 /\ ~panicked => Len(log) = 9 * (ticks - extra)
    /\ pc \in 1..10 => Len(log) = 9 * (ticks - 1) + (pc - 1)

\* C6, witness: two ticks have returned, eighteen runs made.
C6_TwoRounds ==
    pc = 0 /\ ~panicked /\ ticks = 2 /\ extra = 0 /\ Len(log) = 18

\* The ranges of the runs made so far and the cursor.
RangesInOrder ==
    /\ 0 <= start_sample /\ start_sample <= Len(array)
    /\ \A j \in 1..Len(log) :
          /\ log[j].start_sample < log[j].end_sample
          /\ log[j].end_sample <= Len(array)
          /\ j = 1 => log[j].start_sample = 0
          /\ (j > 1 /\ log[j].tick # log[j - 1].tick) =>
                log[j].start_sample = log[j - 1].end_sample
    /\ (ret = "true" /\ log # <<>>) => log[Len(log)].end_sample = Len(array)

\* C7: the ranges handed to the stages are non-empty and contiguous: the
\* first starts at 0, each later tick's range starts where the range of
\* the tick before ended, the range of the tick that returns true ends at
\* the buffer length; the cursor stays in 0..length and never decreases.
C7_Ranges ==
    RangesInOrder /\ [][RangesInOrder' /\ start_sample' >= start_sample]_vars

\* C7, witness: three ticks over three blocks have completed a buffer.
C7_ThreeBlocks ==
    /\ pc = 0 /\ ret = "true" /\ ticks = 3 /\ extra = 0
    /\ log[1].end_sample = log[10].start_sample
    /\ log[10].end_sample = log[19].start_sample
    /\ log[19].end_sample = Len(array)

NormalizeSeen ==
    {IAbs(log[p[1]].input[p[2]]) :
        p \in {q \in (1..Len(log)) \X (1..Len(array)) :
                  /\ log[q[1]].stage = "Normalize"
                  /\ log[q[1]].start_sample < q[2]
                  /\ q[2] <= log[q[1]].end_sample}}

\* Once Normalize has run in a tick, the running maximum is the largest
\* absolute value it has read (0 before any); it has read every index below
\* the end of the tick's block, and has run on a block that ends the buffer
\* at most once, exactly once when generate returns.
NormalizeRunningMax ==
    sound.normalization =>
        /\ (pc = 0 \/ pc >= 9) =>
              /\ \A m \in NormalizeSeen : m <= max_sample
              /\ max_sample \in NormalizeSeen \cup {0}
              /\ \A i \in 1..(IF pc = 0 THEN start_sample ELSE end_sample) :
                    \E j \in 1..Len(log) :
                        /\ log[j].stage = "Normalize"
                        /\ log[j].start_sample < i /\ i <= log[j].end_sample
        /\ Cardinality({j \in 1..Len(log) :
                           /\ log[j].stage = "Normalize"
                           /\ log[j].end_sample = Len(array)}) =
               IF ret = "true" \/ (pc >= 9 /\ end_sample = Len(array))
               THEN 1 ELSE 0

\* C9: with normalization on, the run of Normalize on a block that ends
\* before the buffer does changes no sample, and its run on the block that
\* ends the buffer multiplies every sample from index 0 on, not only the
\* block's, by 1 / (running maximum); that happens once in a run.  After
\* each run the running maximum is the largest absolute value Normalize has
\* read, over all indices below the end of the block.
C9_NormalizeOnce ==
    /\ NormalizeRunningMax
    /\ [][/\ NormalizeRunningMax'
          /\ (sound.normalization /\ pc = 8 /\ pc' = 9) =>
                /\ end_sample < Len(array) => array' = array
                /\ end_sample = Len(array) =>
                      array' = [k \in 1..Len(array) |->
                                   FMul(array[k], FDiv(One, max_sample'))]]_vars

\* C9, witness: Normalize has just run on the last of several blocks and
\* has changed a sample of the first block.
C9_RescaledFirstBlock ==
    /\ sound.normalization /\ pc = 9 /\ ticks >= 2
    /\ end_sample = Len(array)
    /\ max_sample # 0
    /\ array[1] # log[Len(log)].input[1]

\* C10: in every state of a run, every sample at an index at or above the
\* cursor (during a tick: at or above the end of its block) is still 0.
C10_ZeroAboveCursor ==
    \A k \in 1..Len(array) :
        k > (IF pc = 0 THEN start_sample ELSE end_sample) => array[k] = 0

\* C10, witness: in a run over several blocks, a tick has returned false,
\* with samples written below the cursor and samples left above it.
C10_PartialBuffer ==
    /\ pc = 0 /\ ret = "false"
    /\ 0 < start_sample /\ start_sample < Len(array)
    /\ \E k \in 1..start_sample : array[k] # 0

\* C11 as stated: between ticks, every sample below the cursor has the
\* value it has in the finished buffer (the buffer the run returns when
\* ticked to completion).
C11_PrefixIsFinal ==
    (pc = 0 /\ ~panicked) =>
        \E g \in {Generated(sound, overflow_checks, block_size)} :
            ~g.panicked =>
                \A k \in 1..start_sample : array[k] = g.array[k]

\* With normalization off, the samples below the cursor are those of the
\* finished buffer.
PrefixIsFinalUnnormalized ==
    (pc = 0 /\ ~panicked /\ ~sound.normalization) =>
        \E g \in {Generated(sound, overflow_checks, block_size)} :
            ~g.panicked =>
                \A k \in 1..start_sample : array[k] = g.array[k]

\* C11, amended: with normalization off, every sample below the cursor
\* has the value it has in the finished buffer and no later step changes
\* it; with normalization on, the one change to a sample below the cursor
\* is the rescale by 1 / max in the run of Normalize on the block that ends
\* the buffer, so until the last tick the prefix holds the samples before
\* normalization.
C11_PrefixFinalUnlessNormalized ==
    [][/\ PrefixIsFinalUnnormalized
       /\ \A k \in 1..start_sample :
             \/ array'[k] = array[k]
             \/ /\ sound.normalization
                /\ pc = 8 /\ end_sample = Len(array)
                /\ array'[k] = FMul(array[k], FDiv(One, max_sample'))]_vars

\* C11, witness: with normalization off, after two ticks that returned
\* false the prefix holds non-zero samples and the third tick is to come.
C11_PrefixKept ==
    /\ ~sound.normalization
    /\ pc = 0 /\ ret = "false" /\ ticks = 2
    /\ \E k \in 1..start_sample : array[k] # 0

\* The disabling condition of the named stage, from the parameters.
Disabled(name) ==
    CASE name = "Flanger" ->
             sound.flanger_offset = 0 /\ sound.flanger_offset_sweep = 0
      [] name = "BitCrush" ->
             sound.bit_crush = 0 /\ sound.bit_crush_sweep = 0
      [] name = "LowPass" ->
             /\ 2 * sound.low_pass_cutoff >= sound.sample_rate
             /\ 2 * (sound.low_pass_cutoff + sound.low_pass_cutoff_sweep)
                    >= sound.sample_rate
      [] name = "HighPass" ->
             /\ sound.high_pass_cutoff <= 0
             /\ sound.high_pass_cutoff + sound.high_pass_cutoff_sweep <= 0
      [] name = "Compress" -> sound.compression = One
      [] name = "Amplify" -> sound.amplification = 100 * One
      [] OTHER -> FALSE

\* C12: the run of Flanger, BitCrush, LowPass, HighPass, Compress or
\* Amplify on any block leaves the buffer and all carried stage state as
\* they were when the stage's disabling condition holds (and a disabled
\* Flanger has no delay buffer).
C12_DisabledStagesNoOp ==
    /\ Disabled("Flanger") => ~buffer.some
    /\ [][(pc \in 1..9 /\ pc' = pc + 1 /\ Disabled(transformers[pc])) =>
             /\ ~panicked'
             /\ UNCHANGED <<array, oscillators, first_harmonic_amp, phase,
                            buffer, buffer_pos, low_pass_prev,
                            high_pass_prev_in, high_pass_prev_out,
                            max_sample>>]_vars

\* C12, witness: all six stages are disabled and have run over the second
\* block of a buffer that holds non-zero samples.
C12_AllDisabledRan ==
    /\ \A k \in {3, 4, 5, 6, 7, 9} : Disabled(transformers[k])
    /\ pc = 10 /\ ticks = 2
    /\ \E k \in 1..end_sample : array[k] # 0
    /\ \A j \in (Len(log) - 6)..(Len(log) - 2) : log[j].input = array

\* A Synth run alone: n calls of tick on a new instance.
RECURSIVE Alone(_, _, _)
Alone(inst, checks, n) ==
    IF n = 0 THEN inst ELSE Alone(tick(inst, checks), checks, n - 1)

\* In any interleaving, each instance is where its own calls of tick alone
\* bring it from Synth::new.
EachAsAlone ==
    \A i \in 1..2 :
        synths[i] = Alone(SynthOf(synths[i].sound, synths[i].block_size),
                          overflow_checks, synths[i].ticks)

\* C13: for two Synth instances over the same or different parameter
\* sets, in any interleaving of their calls of tick each instance has
\* exactly the buffer, stage state and PRNG state it has when run alone;
\* a call of tick on one instance leaves the other as it was, and no call
\* changes a parameter set.
C13_RunsIndependent ==
    /\ []EachAsAlone
    /\ [][/\ \E i \in 1..2 : synths'[3 - i] = synths[3 - i]
          /\ \A i \in 1..2 : synths'[i].sound = synths[i].sound]_vars

\* C13, witness: two instances over the same noise parameter set with
\* different block sizes have both completed, the first after the second
\* had ticked in between its calls, and hold the same buffer.
C13_BothCompleted ==
    /\ synths # <<>>
    /\ synths[1].sound = synths[2].sound
    /\ synths[1].sound.waveform = "Whitenoise"
    /\ synths[1].block_size # synths[2].block_size
    /\ synths[1].ret = "true" /\ synths[2].ret = "true"
    /\ synths[1].ticks >= 2

\* C14: two generators constructed with the same seed return the same
\* values draw for draw, however many each has drawn; two constructed with
\* different seeds return different sequences (they differ within the
\* first four draws).
C14_SeedDeterminesDraws ==
    \A i \in 1..2 : \A j \in 1..2 :
        /\ generators[i].seed = generators[j].seed =>
              \A n \in 1..IMin(Len(generators[i].draws),
                               Len(generators[j].draws)) :
                  generators[i].draws[n] = generators[j].draws[n]
        /\ (/\ generators[i].seed # generators[j].seed
            /\ Len(generators[i].draws) >= 4
            /\ Len(generators[j].draws) >= 4) =>
              \E n \in 1..4 : generators[i].draws[n] # generators[j].draws[n]

\* C14, witness: two generators of the same seed have drawn all their
\* values, the second after the first.
C14_SameSeedDrawn ==
    /\ generators # <<>>
    /\ generators[1].seed = generators[2].seed
    /\ Len(generators[1].draws) = MaxDraws
    /\ Len(generators[2].draws) = MaxDraws

\* A u32 as its 32 bits, bit 0 the least.
BitsOf(u) ==
    [i \in 0..31 |-> IF i < 16 THEN (u[2] \div 2^i) % 2
                     ELSE (u[1] \div 2^(i - 16)) % 2]
\* The bits of a number below 2^31.
BitsOfInt(n) == [i \in 0..31 |-> IF i = 31 THEN 0 ELSE (n \div 2^i) % 2]
ShlBits(b, k) == [i \in 0..31 |-> IF i >= k THEN b[i - k] ELSE 0]
ShrBits(b, k) == [i \in 0..31 |-> IF i + k <= 31 THEN b[i + k] ELSE 0]
XorBits(a, b) == [i \in 0..31 |-> (a[i] + b[i]) % 2]

\* The xorshift step on words of bits, t given.
XorshiftStep(S, t) ==
    [x |-> S.y, y |-> S.z, z |-> S.w,
     w |-> XorBits(XorBits(XorBits(S.w, ShrBits(S.w, 19)), t), ShrBits(t, 8))]

\* The state after n steps, and the values the last steps returned
\* ((w + 0x80000000) mod 2^32 is w with bit 31 flipped).
RECURSIVE Xorshift(_, _, _)
Xorshift(S, n, outs) ==
    IF n = 0 THEN [state |-> S, outs |-> outs]
    ELSE CHOOSE r \in
           {Xorshift(next, n - 1,
                     Append(outs, [next.w EXCEPT ![31] = 1 - next.w[31]])) :
              next \in {XorshiftStep(S, XorBits(S.x, ShlBits(S.x, 11)))}} : TRUE

\* C15: the generator is the 32-bit xorshift.  Its state after k draws is
\* the state 32 + k steps after (seed, 362436069, 521288629, 88675123),
\* a step being t = x XOR (x << 11), (x, y, z) <- (y, z, w),
\* w <- w XOR (w >> 19) XOR t XOR (t >> 8) on 32-bit words; the k values
\* it has returned are (w + 0x80000000) mod 2^32 of the last k steps; and
\* every state word is within [0, 2^32).
C15_IsXorshift ==
    \A i \in 1..2 :
        \E g \in {generators[i]} :
        \E r \in {Xorshift(Xorshift([x |-> BitsOf(g.seed),
                                     y |-> BitsOfInt(362436069),
                                     z |-> BitsOfInt(521288629),
                                     w |-> BitsOfInt(88675123)],
                                    32, <<>>).state,
                           Len(g.draws), <<>>)} :
            /\ \A f \in {"x", "y", "z", "w"} :
                  /\ g.random[f][1] \in 0..(W16 - 1)
                  /\ g.random[f][2] \in 0..(W16 - 1)
                  /\ BitsOf(g.random[f]) = r.state[f]
            /\ \A n \in 1..Len(g.draws) :
                  /\ g.draws[n][1] \in 0..(W16 - 1)
                  /\ g.draws[n][2] \in 0..(W16 - 1)
                  /\ BitsOf(g.draws[n]) = r.outs[n]

\* C15, witness: the generator seeded with 0xffffffff has drawn all its
\* values.
C15_AllOnesSeedDrawn ==
    /\ generators # <<>>
    /\ generators[1].seed = <<W16 - 1, W16 - 1>>
    /\ Len(generators[1].draws) = MaxDraws

\* C16: with harmonics = 0 the Generator holds exactly one oscillator and
\* its weight is 1, and the buffer generate returns is the buffer it returns
\* for the parameter set that differs only in harmonics_falloff, whatever
\* that value is (0, 2 or infinity here, against the run's 1/2).
C16_FalloffIrrelevant ==
    sound.harmonics = 0 =>
        /\ Len(oscillators) = 1
        /\ first_harmonic_amp = One
        /\ returned =>
              \A f \in {0, FromInt(2), PosInf} :
                  \E g \in {Generated(With(sound, [harmonics_falloff |-> f]),
                                      overflow_checks, block_size)} :
                      ~g.panicked /\ g.array = array

\* C16, witness: generate has returned a buffer with a nonzero sample for a
\* parameter set with harmonics = 0.
C16_SingleOscillatorReturned ==
    /\ returned
    /\ sound.harmonics = 0
    /\ sound.harmonics_falloff = Half
    /\ \E k \in 1..Len(array) : array[k] # 0

\* The later stages at the settings of Scenario A: no flanger, no sweeps,
\* jumps or modulation, compression 1, normalization off, amplification 100.
ScenarioALater(s) ==
    /\ s.flanger_offset = 0 /\ s.flanger_offset_sweep = 0
    /\ s.frequency_sweep = 0 /\ s.frequency_delta_sweep = 0
    /\ s.frequency_jump1_amount = 0 /\ s.frequency_jump2_amount = 0
    /\ s.square_duty_sweep = 0 /\ s.bit_crush_sweep = 0
    /\ s.low_pass_cutoff_sweep = 0 /\ s.high_pass_cutoff_sweep = 0
    /\ s.tremolo_depth = 0 /\ s.vibrato_depth = 0
    /\ s.compression = One /\ ~s.normalization /\ s.amplification = Hundred

\* Envelope has run on the block that starts at sample 0.
EnvelopeRan == \E n \in 1..Len(log) : log[n].stage = "Envelope"

ExpectedType(json, i) ==
    \E v \in {json[Fields[i].key]} :
        CASE Fields[i].key = "_version" -> v.t = "number" /\ v.e = 0 /\ v.m >= 0
          [] Fields[i].key = "waveform" ->
               /\ v.t = "string"
               /\ v.s \in {"sine", "triangle", "sawtooth", "square", "tangent",
                           "whistle", "breaker", "whitenoise", "pinknoise",
                           "brownnoise"}
          [] Fields[i].key = "_name" -> v.t = "string"
          [] Fields[i].key \in {"harmonics", "bitCrush", "bitCrushSweep"} ->
               v.t = "number" /\ v.e = 0
          [] Fields[i].key \in {"interpolateNoise", "normalization"} ->
               v.t = "boolean"
          [] OTHER -> v.t = "number"

\* x is the f64 nearest to m / p.
Nearest(x, m, p) ==
    /\ 2 * (x * p - m * Scale) <= p
    /\ 2 * (m * Scale - x * p) <= p

\* The fields of the object that are absent or not of the expected type.
Offending(json) ==
    {i \in 1..Len(Fields) :
        json[Fields[i].key].t = "absent" \/ ~ExpectedType(json, i)}

\* The error for field i: MissingField when absent, else InvalidField.
ErrorAt(json, i) ==
    <<IF json[Fields[i].key].t = "absent" THEN "MissingField"
      ELSE "InvalidField", Fields[i].key>>

\* C18: read_jfxr returns a parameter set exactly when the input is an
\* object whose required fields are all present with the expected type and
\* whose _version is at most VERSION, and then every parameter is the value
\* the object holds under its key; otherwise it returns no parameter set
\* and an error: NotAnObject for JSON that is not an object,
\* MissingField(_version) or InvalidField(_version) when the version cannot
\* be read, else UnsupportedVersion when it is above VERSION, else
\* MissingField or InvalidField naming the first offending field in
\* reading order.
C18_ReadJfxrErrors ==
    (jfxr # <<>> /\ jfxr.read) =>
        \E r \in {jfxr.result} : \E d \in {jfxr.doc} :
            /\ d.kind = "invalid" => ~r.ok /\ r.err = <<"Json">>
            /\ d.kind \notin {"invalid", "object"} =>
                  ~r.ok /\ r.err = <<"NotAnObject">>
            /\ ~r.ok => r.sound = <<>>
            /\ d.kind = "object" =>
                  \E bad \in {Offending(d.fields)} :
                      /\ r.ok <=> (bad = {} /\ d.fields["_version"].m <= VERSION)
                      /\ r.ok =>
                            \A i \in 2..Len(Fields) :
                              \E v \in {d.fields[Fields[i].key]} :
                                CASE Fields[i].get = "as_f64" ->
                                       IF v.e >= 0
                                       THEN r.sound[Fields[i].field]
                                              = v.m * 10^v.e * Scale
                                       ELSE Nearest(r.sound[Fields[i].field],
                                                    v.m, 10^(0 - v.e))
                                  [] Fields[i].get = "as_i32" ->
                                       r.sound[Fields[i].field] = v.m
                                  [] Fields[i].get = "as_bool" ->
                                       r.sound[Fields[i].field] = v.b
                                  [] Fields[i].key = "_name" ->
                                       r.sound.name = v.s
                                  [] OTHER -> TagOf[r.sound.waveform] = v.s
                      /\ ~r.ok =>
                            IF 1 \in bad THEN r.err = ErrorAt(d.fields, 1)
                            ELSE IF d.fields["_version"].m > VERSION
                            THEN r.err = <<"UnsupportedVersion">>
                            ELSE /\ bad # {}
                                 /\ \E i \in bad :
                                       /\ \A j \in bad : i <= j
                                       /\ r.err = ErrorAt(d.fields, i)

\* C18, witness: a file with two offending fields, harmonics a number with
\* a fraction and the later amplification absent, has been read and
\* InvalidField(harmonics) returned.
C18_FirstOfTwoReported ==
    /\ jfxr # <<>>
    /\ jfxr.read
    /\ jfxr.doc.kind = "object"
    /\ jfxr.doc.fields["harmonics"].t = "number"
    /\ jfxr.doc.fields["harmonics"].e # 0
    /\ jfxr.doc.fields["amplification"].t = "absent"
    /\ jfxr.result.err = <<"InvalidField", "harmonics">>

\* C19: reading the file write_jfxr wrote succeeds and returns the
\* parameter set that was written, the name and all 34 parameters.
C19_RoundTrip ==
    (jfxr # <<>> /\ jfxr.read /\ jfxr.edits = 0) =>
        /\ jfxr.result.ok
        /\ jfxr.result.sound = jfxr.sound

\* The states of a Random constructed with 0x3cf78ba3 = 1022856099 before
\* its first draw and after each of its first nine (a buffer of the model
\* holds nine samples at most, and a sample takes one draw at most).
SeedOrbit ==
    [n \in 1..10 |->
        Discard(RandomNew(<<1022856099 \div W16, 1022856099 % W16>>), n - 1)]

\* The harmonic loop of Generator::run for one sample at the given phase
\* leaves each oscillator as its own get_sample alone leaves it.
EachOscillatorAlone(ph) ==
    \E h \in {HarmonicLoop(sound, oscillators, ph, 0, 0, sound.harmonics,
                           One, 0)} :
        \A k \in 1..Len(oscillators) :
            h.oscillators[k]
              = get_sample(oscillators[k], sound,
                           Fract(FMul(ph, FromInt(k))), 0).osc

\* C20: for a noise waveform the Generator holds one oscillator per
\* harmonic index; each one's Random is constructed with 0x3cf78ba3, so
\* before the first sample all are in the same state and later each is in
\* the state that some number of draws from that seed leads to: the n-th
\* draw of every oscillator is the same value.  A pass of the harmonic
\* loop advances each oscillator's Random only by that oscillator's own
\* call.
C20_NoiseSeeds ==
    (sound.waveform \in NoiseWaveforms /\ sound.harmonics >= 0) =>
        /\ Len(oscillators) = sound.harmonics + 1
        /\ \A k \in 1..Len(oscillators) :
              /\ \E n \in 1..(Len(array) + 1) :
                    oscillators[k].random = SeedOrbit[n]
              /\ (ticks = 0 /\ pc = 0) => oscillators[k].random = SeedOrbit[1]
        /\ (pc = 1 /\ ~panicked) =>
              EachOscillatorAlone(Lit(1, 4)) /\ EachOscillatorAlone(Lit(3, 8))

\* C20, witness: a noise sound of two harmonics has been generated; both
\* oscillators have drawn, the second more often than the first.
C20_DrawnApart ==
    /\ returned
    /\ sound.waveform = "Whitenoise"
    /\ sound.harmonics = 1
    /\ \E m \in 2..10 : \E n \in 2..10 :
          /\ m < n
          /\ oscillators[1].random = SeedOrbit[m]
          /\ oscillators[2].random = SeedOrbit[n]

\* The clamped delay of sample i (synth.rs 171-172).
ClampedDelay(i) ==
    IMin(IMax(FlangerOffsetSamples(sound, Len(array), i), 0),
         Len(buffer.vec) - 1)

\* The indexing of the Flanger for the samples of the block it is about to
\* process, but for the order of the subtraction and the addition: the
\* delay is in [0, buffer_length - 1], the read index in
\* [0, buffer_length), and the write cursor is the number of samples
\* processed so far modulo buffer_length.
FlangerIndexing ==
    (pc = 3 /\ ~panicked /\ buffer.some /\ Len(buffer.vec) > 0) =>
        /\ buffer_pos = start_sample % Len(buffer.vec)
        /\ \A i \in start_sample..(end_sample - 1) :
              /\ ClampedDelay(i) \in 0..(Len(buffer.vec) - 1)
              /\ ((i % Len(buffer.vec)) - ClampedDelay(i) + Len(buffer.vec))
                    % Len(buffer.vec) \in 0..(Len(buffer.vec) - 1)

\* C21: in the active Flanger the delay is clamped into
\* [0, buffer_length - 1], the read index is in [0, buffer_length), the
\* write cursor is the number of samples processed so far modulo
\* buffer_length, and no intermediate value of
\* buffer_pos - offset_samples + buffer_length, evaluated from the left in
\* usize, is below zero.
C21_FlangerNoUnderflow ==
    /\ FlangerIndexing
    /\ (pc = 3 /\ ~panicked /\ buffer.some /\ Len(buffer.vec) > 0) =>
          \A i \in start_sample..(end_sample - 1) :
              (i % Len(buffer.vec)) - ClampedDelay(i) >= 0

\* round(bit_crush + (i / length) * bit_crush_sweep), before `as usize`
\* and the clamp.
UnclampedBits(i) ==
    Round(FAdd(FromInt(sound.bit_crush),
               FMul(FDiv(FromInt(i), FromInt(Len(array))),
                    FromInt(sound.bit_crush_sweep))))

\* C23: when the active BitCrush is about to process a block, the bit
\* depth of every sample of the block is an integer in [1, 16], whatever
\* the unclamped value, and the position fraction i / length, of the
\* absolute index and the length of the whole buffer, is in [0, 1).
C23_BitDepthClamped ==
    (pc = 4 /\ ~panicked /\ ~BitCrushSkips(sound)) =>
        \A i \in start_sample..(end_sample - 1) :
            /\ BitCrushBits(sound, Len(array), i) \in 1..16
            /\ FDiv(FromInt(i), FromInt(Len(array))) >= 0
            /\ FDiv(FromInt(i), FromInt(Len(array))) < One
            /\ i < Len(array)

\* C23, witness: BitCrush has processed a block whose first sample has the
\* unclamped depth 0 and whose last has one above 16; another run has a
\* negative one (C23_NegativeDepth).
C23_DepthZeroAndAbove ==
    /\ pc = 5 /\ ~panicked
    /\ ~BitCrushSkips(sound)
    /\ start_sample = 0 /\ end_sample = Len(array)
    /\ UnclampedBits(0) = 0
    /\ UnclampedBits(Len(array) - 1) > FromInt(16)
    /\ array # log[Len(log)].input

C23_NegativeDepth ==
    /\ pc = 5 /\ ~panicked
    /\ UnclampedBits(start_sample) < 0

\* The value sample j had when the Flanger was called on its block.
FlangerEntry(j) ==
    CHOOSE v \in {log[m].input[j + 1] :
                    m \in {n \in 1..Len(log) :
                              /\ log[n].stage = "Flanger"
                              /\ j >= log[n].start_sample
                              /\ j < log[n].end_sample}} : TRUE

\* What the Flanger adds to sample i: the entry value of sample i - d, or
\* 0 when there is no such sample.
FlangerDelayed(i, d) == IF i - d < 0 THEN 0 ELSE FlangerEntry(i - d)

\* C22: the active Flanger is a delay without feedback.  For every call
\* of the Flanger that returned, and every sample i of its block with the
\* clamped delay d, the sample it leaves is the sample it found plus the
\* value sample i - d had on entry to the Flanger (in this block or an
\* earlier one), or plus 0 when i - d < 0.
C22_FlangerIsDelay ==
    buffer.some =>
        \A n \in 1..(Len(log) - 1) :
            log[n].stage = "Flanger" =>
                \A i \in log[n].start_sample..(log[n].end_sample - 1) :
                    log[n + 1].input[i + 1]
                      = FAdd(log[n].input[i + 1],
                             FlangerDelayed(i, ClampedDelay(i)))

\* C22, witness: a buffer longer than twice the delay buffer was flanged
\* sample by sample, with delays of 0 and more, and a nonzero value of the
\* block before was added.
C22_DelayedAcrossBlocks ==
    /\ returned
    /\ buffer.some
    /\ block_size = 1
    /\ Len(array) >= 2 * Len(buffer.vec)
    /\ \E i \in 0..(Len(array) - 1) : ClampedDelay(i) = 0
    /\ \E i \in (Len(buffer.vec))..(Len(array) - 1) :
          /\ ClampedDelay(i) >= 1
          /\ FlangerDelayed(i, ClampedDelay(i)) # 0

\* The phase after n samples, whatever the blocks: 0, then advanced by
\* frequency_at(i / sample_rate) / sample_rate before each sample i and
\* wrapped.
RECURSIVE PhaseAfter(_)
PhaseAfter(n) ==
    IF n = 0 THEN 0
    ELSE CHOOSE p \in
           {Fract(FAdd(before,
                       FDiv(frequency_at(sound,
                                         FDiv(FromInt(n - 1), sound.sample_rate)),
                            sound.sample_rate))) :
              before \in {PhaseAfter(n - 1)}} : TRUE

\* The samples the Generator has produced so far.
Generated_n == IF pc \in 0..1 THEN start_sample ELSE end_sample

\* C24 as stated: after every sample the phase is in [0, 1).
C24_PhaseInUnitInterval == phase >= 0 /\ phase < One

\* C24, amended: for a sample rate above 0 (and oscillators to produce a
\* sample with), the phase is 0 before the first sample, is the phase
\* that the advances by frequency_at(i / sample_rate) / sample_rate give
\* for the samples produced so far, whatever the blocks they came in, and
\* after every sample it and every harmonic phase frac(phase * (k + 1))
\* are in [0, 1).
C24_PhaseAccumulates ==
    (sound.sample_rate > 0 /\ ~panicked) =>
        /\ phase = PhaseAfter(Generated_n)
        /\ \A n \in 0..Generated_n :
              \E p \in {PhaseAfter(n)} :
                  /\ p >= 0 /\ p < One
                  /\ \A k \in 0..sound.harmonics :
                        /\ Fract(FMul(p, FromInt(k + 1))) >= 0
                        /\ Fract(FMul(p, FromInt(k + 1))) < One

\* C24, witness: a run of several blocks, of two harmonics, in which the
\* phase has wrapped and ends above 0.
C24_PhaseWrapped ==
    /\ returned
    /\ sound.sample_rate > 0
    /\ sound.harmonics = 1
    /\ ticks >= 2
    /\ phase > 0
    /\ \E n \in 1..Len(array) : PhaseAfter(n) < PhaseAfter(n - 1)

\* One get_sample call on the noise oscillator o with the phase ph, as the
\* claim describes it: a wrap draws once and shifts the draws, any other
\* call leaves the Random, the filter bank and both draws alone; in both
\* cases the doubled phase is remembered.
WrapsAsClaimed(o, ph, after) ==
    /\ after.prev_phase = Fract(FMul(ph, FromInt(2)))
    /\ IF FLt(Fract(FMul(ph, FromInt(2))), o.prev_phase)
       THEN /\ after.random = uint32(o.random).rnd
            /\ after.prev_random = o.curr_random
       ELSE /\ after.random = o.random
            /\ after.prev_random = o.prev_random
            /\ after.curr_random = o.curr_random
            /\ after.b = o.b

\* The brown step from a current draw c in [-1, 1] and a uniform draw u
\* in [-1, 1] ends in [-1, 1].
BrownStaysIn(o) ==
    \A c \in {-One, 1 - One, 0, One - 1, One} : \A u \in {-One, 0, One} :
        \E step \in {BrownAdvance([o EXCEPT !.curr_random = c],
                                  [rnd |-> o.random, out |-> u])} :
            step.curr_random >= -One /\ step.curr_random <= One

\* C25: a get_sample call on a noise oscillator whose doubled phase is
\* strictly below the doubled phase of the call before advances the
\* Random by exactly one draw and makes the current draw the previous
\* one; every other call leaves the Random and both draws unchanged.
\* An oscillator that has not drawn holds 0 for both draws, and the
\* current draw of brown noise is in [-1, 1] and stays there.
C25_NoiseWraps ==
    (sound.waveform \in NoiseWaveforms /\ sound.harmonics >= 0) =>
        \A k \in 1..Len(oscillators) :
            /\ oscillators[k].random = SeedOrbit[1] =>
                  oscillators[k].prev_random = 0
                      /\ oscillators[k].curr_random = 0
            /\ sound.waveform = "Brownnoise" =>
                  /\ oscillators[k].curr_random >= -One
                  /\ oscillators[k].curr_random <= One
                  /\ (pc = 1 /\ ~panicked) => BrownStaysIn(oscillators[k])
            /\ (pc = 1 /\ ~panicked) =>
                  \A ph \in 0..(One - 1) :
                      WrapsAsClaimed(oscillators[k], ph,
                          get_sample(oscillators[k], sound, ph, 0).osc)

\* C25, witness: a noise oscillator that has wrapped at least twice is
\* about to be called again, with a remembered phase above 0, so that
\* calls of all three kinds (a wrap, the same phase, a larger one) follow.
C25_WrappedTwice ==
    /\ pc = 1
    /\ ~panicked
    /\ sound.waveform = "Brownnoise"
    /\ Len(oscillators) >= 1
    /\ oscillators[1].prev_phase > 0
    /\ oscillators[1].prev_phase < One
    /\ oscillators[1].prev_random # 0
    /\ oscillators[1].curr_random # oscillators[1].prev_random
    /\ \E n \in 3..10 : oscillators[1].random = SeedOrbit[n]

\* What the Compress stage makes of one sample x under the sound's
\* compression.
CompressOf(x) ==
    CompressStep(sound, [array |-> <<x>>], 0).array[1]

\* The claim's three properties for the samples the Compress stage of log
\* entry n was given and left: the output for -s is the negation of the
\* output for s, the output has the sign of s (a result that rounds to 0
\* on the grid has none), and 0 is mapped to 0.
CompressedAsClaimed(n) ==
    \A i \in log[n].start_sample..(log[n].end_sample - 1) :
        \E s \in {log[n].input[i + 1]} : \E out \in {log[n + 1].input[i + 1]} :
            /\ out = CompressOf(s)
            /\ CompressOf(FNeg(s)) = FNeg(out)
            /\ FGt(s, 0) => FGe(out, 0)
            /\ FLt(s, 0) => FLe(out, 0)
            /\ s = 0 => out = 0

\* C26: the active Compress stage (compression # 1) is odd-symmetric,
\* keeps the sign of every non-zero sample and maps a sample of 0 to 0,
\* for every compression value, 0 included.
C26_CompressOddSymmetric ==
    \A n \in 1..(Len(log) - 1) :
        (log[n].stage = "Compress" /\ ~CompressSkips(sound)) =>
            CompressedAsClaimed(n)

\* The same for the compression values other than 0.
C26_AboveZero ==
    \A n \in 1..(Len(log) - 1) :
        (log[n].stage = "Compress" /\ ~CompressSkips(sound)
            /\ sound.compression # 0) =>
            CompressedAsClaimed(n)

\* A Compress stage with an exponent of 1/2 has been given samples of 0,
\* above 0 and below 0.
C26_AllSigns ==
    /\ returned
    /\ sound.compression = Half
    /\ \E n \in 1..(Len(log) - 1) :
          /\ log[n].stage = "Compress"
          /\ log[n].start_sample = 0 /\ log[n].end_sample = Len(array)
          /\ \E i \in 1..Len(array) : log[n].input[i] = 0
          /\ \E i \in 1..Len(array) : log[n].input[i] > 0
          /\ \E i \in 1..Len(array) : log[n].input[i] < 0

\* The time of sample i, as Envelope::run computes it.
TimeOf(i) == FDiv(FromInt(i), sound.sample_rate)

\* C27 as stated: whenever attack, sustain_punch, decay and tremolo_depth
\* are all zero, amplitude_at(i / sample_rate) is 1 for every index i of
\* the buffer, for sustain = 0 too.
C27_SkipIsApply ==
    EnvelopeSkips(sound) =>
        \A i \in 0..(Len(array) - 1) : amplitude_at(sound, TimeOf(i)) = One

\* C27, amended: whenever attack, sustain_punch, decay and tremolo_depth
\* are all zero, the Envelope stage leaves its block as it was given, and
\* for every sample whose time i / sample_rate is below sustain
\* amplitude_at is 1 and multiplying by it gives the same sample.
C27_SkipIsApplyBelowSustain ==
    EnvelopeSkips(sound) =>
        \A n \in 1..(Len(log) - 1) :
            log[n].stage = "Envelope" =>
                \A i \in log[n].start_sample..(log[n].end_sample - 1) :
                    /\ log[n + 1].input[i + 1] = log[n].input[i + 1]
                    /\ FLt(TimeOf(i), sound.sustain) =>
                          /\ amplitude_at(sound, TimeOf(i)) = One
                          /\ EnvelopeStep(sound, [array |-> log[n].input],
                                          i).array[i + 1]
                               = log[n].input[i + 1]

\* C27, witness: a sound with only a sustain has been generated in
\* several blocks; every sample's time is below sustain and the Envelope
\* stage was given samples other than 0.
C27_SustainOnly ==
    /\ returned
    /\ EnvelopeSkips(sound)
    /\ sound.sustain > 0
    /\ ticks >= 2
    /\ \A i \in 0..(Len(array) - 1) : FLt(TimeOf(i), sound.sustain)
    /\ \E n \in 1..(Len(log) - 1) :
          /\ log[n].stage = "Envelope"
          /\ log[n].start_sample > 0
          /\ log[n].input[log[n].start_sample + 1] # 0

\* C28: once a call of tick has returned true, every further step is a
\* call that returns true again and changes neither the buffer nor the
\* cursor nor the state any stage carries; no stage runs (the log of
\* stage runs stays as it is), so Normalize does not rescale again.
C28_TrueIsFinal ==
    [][(ret = "true" /\ pc = 0) =>
          /\ ret' = "true"
          /\ pc' = 0
          /\ UNCHANGED <<array, start_sample, end_sample, oscillators,
                         first_harmonic_amp, phase, buffer, buffer_pos,
                         low_pass_prev, high_pass_prev_in, high_pass_prev_out,
                         max_sample, log, panicked>>]_vars

\* C28, witness: tick has been called again after it returned true, on a
\* normalized buffer of several blocks whose rescaling changed it.
C28_TickedAfterTrue ==
    /\ extra >= 1
    /\ ret = "true"
    /\ pc = 0
    /\ start_sample = Len(array)
    /\ sound.normalization
    /\ Len(array) >= 2
    /\ ticks >= 3
    /\ max_sample > 0
    /\ max_sample # One

====
